---- MODULE Spec2Model ----
(***************************************************************************)
(* Model of the CareerManifest scoring engine (backend/internal/engine):   *)
(* AggregateProfile -> ComputeRawScores -> ComputeRisk ->                  *)
(* ApplyRiskPenalties -> NormalizeAndRank, as driven by                    *)
(* ScoringEngine.ComputeResult.                                            *)
(*                                                                         *)
(* Real numbers are fixed-point integers, exact for every value the model  *)
(* produces:                                                               *)
(*   option weights, career weights      hundredths                        *)
(*   profile features                    1/FScale                          *)
(*   career scores (raw and adjusted)    1/ScoreScale                      *)
(*   risk score, risk factors            hundredths  (math.Round(x*100))   *)
(*   RawScore, Normalized, Confidence    thousandths (math.Round(x*1000))  *)
(*   Percentage                          hundredths of a percent           *)
(*   rule thresholds, rule penalties     hundredths                        *)
(* Go slices and arrays are functions on 0..n-1, Go maps are functions on  *)
(* their key set.  Arithmetic is exact: the rounding error of float64      *)
(* operations is not modelled, only the explicit math.Round calls are.     *)
(* The one exception is AggregateProfile64, which computes the profile in  *)
(* IEEE 754 double precision as the build does.                            *)
(* career.go declares six careers (NumCareers = 6); rows 6..8 of the       *)
(* weight matrix and the rules on Creative and Healthcare lie beyond it.   *)
(***************************************************************************)
EXTENDS Integers, Sequences, FiniteSets, TLC

(* ------------------------------- bounds -------------------------------- *)
\* longest answers list submitted to ComputeResult
MaxAnswers == 2
\* selected option indices range up to MaxOption
MaxOption == 4

(* ----------------------------- fixed point ----------------------------- *)
RECURSIVE Gcd(_, _)
Gcd(a, b) == IF b = 0 THEN a ELSE Gcd(b, a % b)

RECURSIVE LcmUpTo(_)
LcmUpTo(n) == IF n <= 1 THEN 1 ELSE (LcmUpTo(n - 1) * n) \div Gcd(LcmUpTo(n - 1), n)

\* every per-feature contribution count 1..MaxAnswers divides CountLcm
CountLcm == LcmUpTo(MaxAnswers)

\* denominator of profile features: weights are hundredths, means divide by a count
FScale == 100 * CountLcm

\* (1 - Penalty) of every rule that can apply is a multiple of 1/20 and at
\* most two rules target one career, so two factors of 20 keep scores exact
PenaltyScale == 20 * 20

\* denominator of career scores
ScoreScale == FScale * 100 * PenaltyScale

Abs(x) == IF x < 0 THEN -x ELSE x

\* math.Round(n / d) for d > 0: nearest integer, halves away from zero
RoundDiv(n, d) ==
  IF n >= 0
    THEN (n \div d) + (IF 2 * (n % d) >= d THEN 1 ELSE 0)
    ELSE -(((-n) \div d) + (IF 2 * ((-n) % d) >= d THEN 1 ELSE 0))

RECURSIVE LongDiv(_, _, _, _)
LongDiv(q, r, d, k) ==
  IF k = 0
    THEN q + (IF 2 * r >= d THEN 1 ELSE 0)
    ELSE LongDiv(q * 10 + ((r * 10) \div d), (r * 10) % d, d, k - 1)

\* math.Round((n / d) * 10^k) for d > 0, by long division
RoundScaled(n, d, k) ==
  IF n >= 0
    THEN LongDiv(n \div d, n % d, d, k)
    ELSE -LongDiv((-n) \div d, (-n) % d, d, k)

\* floor(x * m / 100)
MulHundredths(x, m) == (x \div 100) * m + (((x % 100) * m) \div 100)

(* ------------------------------ profile.go ----------------------------- *)
NumFeatures == 9

FeatAcademicStrength == 0
FeatFinancialPressure == 1
FeatRiskTolerance == 2
FeatLeadershipScore == 3
FeatTechAffinity == 4
FeatGovtInterest == 5
FeatAbroadInterest == 6
FeatIncomeUrgency == 7
FeatCareerInstability == 8

Features == 0 .. (NumFeatures - 1)

\* a Go array literal as a function on 0..n-1
Vec(s) == [i \in 0 .. (Len(s) - 1) |-> s[i + 1]]

\* UserProfile{}: the zero value
ZeroProfile == [i \in Features |-> 0]

(* ------------------------------ career.go ------------------------------ *)
CareerIT == 0
CareerMBA == 1
CareerGovt == 2
CareerStartup == 3
CareerHigherStudies == 4
CareerMSAbroad == 5
NumCareers == 6

\* rows 6..8 of the weight matrix, named by matrix.go and risk.go
CareerDataScience == 6
CareerCreative == 7
CareerHealthcare == 8

AllCareers == <<CareerIT, CareerMBA, CareerGovt, CareerStartup, CareerHigherStudies, CareerMSAbroad>>

(* ------------------------------ matrix.go ------------------------------ *)
CareerWeightMatrix ==
     0 :> Vec(<<40, -20, 25, -10, 85, -20, 30, -10, 8>>)
  @@ 1 :> Vec(<<35, -25, 35, 82, -15, -18, 20, -30, 10>>)
  @@ 2 :> Vec(<<30, 20, -45, 15, -35, 95, -42, 10, -40>>)
  @@ 3 :> Vec(<<20, -35, 80, 72, 45, -35, -10, -40, 55>>)
  @@ 4 :> Vec(<<88, -15, -10, -15, 35, 8, -10, -40, -12>>)
  @@ 5 :> Vec(<<65, -30, 30, -5, 40, -30, 90, -35, 5>>)
  @@ 6 :> Vec(<<75, -15, 30, 20, 88, -25, 50, -10, 15>>)
  @@ 7 :> Vec(<<15, -10, 50, 30, 40, -45, 30, -15, 40>>)
  @@ 8 :> Vec(<<85, 10, -20, 35, -10, 35, 20, -25, -20>>)

GetCareerWeights(c) ==
  IF c < 0 \/ c >= NumCareers
    THEN [i \in Features |-> 0]
    ELSE CareerWeightMatrix[c]

(* ----------------------------- aggregator.go --------------------------- *)
FM(f, w) == [FeatureIndex |-> f, Weight |-> w]

questionFeatureMap ==
     1 :> (0 :> <<FM(FeatAcademicStrength, 10)>>
          @@ 1 :> <<FM(FeatAcademicStrength, 30)>>
          @@ 2 :> <<FM(FeatAcademicStrength, 55)>>
          @@ 3 :> <<FM(FeatAcademicStrength, 80), FM(FeatAbroadInterest, 15)>>
          @@ 4 :> <<FM(FeatAcademicStrength, 100), FM(FeatAbroadInterest, 25)>>)
  @@ 2 :> (0 :> <<FM(FeatTechAffinity, 90), FM(FeatAcademicStrength, 70), FM(FeatAbroadInterest, 30)>>
          @@ 1 :> <<FM(FeatTechAffinity, 30), FM(FeatAcademicStrength, 60), FM(FeatAbroadInterest, 20)>>
          @@ 2 :> <<FM(FeatTechAffinity, 20), FM(FeatAcademicStrength, 50), FM(FeatLeadershipScore, 40)>>
          @@ 3 :> <<FM(FeatTechAffinity, 10), FM(FeatAcademicStrength, 35), FM(FeatLeadershipScore, 30)>>
          @@ 4 :> <<FM(FeatTechAffinity, 5), FM(FeatAcademicStrength, 30), FM(FeatGovtInterest, 40)>>)
  @@ 3 :> (0 :> <<FM(FeatTechAffinity, 100), FM(FeatAcademicStrength, 70), FM(FeatAbroadInterest, 35)>>
          @@ 1 :> <<FM(FeatTechAffinity, 50), FM(FeatAcademicStrength, 65), FM(FeatAbroadInterest, 25)>>
          @@ 2 :> <<FM(FeatTechAffinity, 10), FM(FeatLeadershipScore, 50), FM(FeatAcademicStrength, 45)>>
          @@ 3 :> <<FM(FeatTechAffinity, 20), FM(FeatAcademicStrength, 55), FM(FeatAbroadInterest, 15)>>
          @@ 4 :> <<FM(FeatTechAffinity, 5), FM(FeatAcademicStrength, 30), FM(FeatGovtInterest, 35)>>)
  @@ 4 :> (0 :> <<FM(FeatAcademicStrength, 15)>>
          @@ 1 :> <<FM(FeatAcademicStrength, 35)>>
          @@ 2 :> <<FM(FeatAcademicStrength, 55)>>
          @@ 3 :> <<FM(FeatAcademicStrength, 80), FM(FeatAbroadInterest, 15)>>
          @@ 4 :> <<FM(FeatAcademicStrength, 100), FM(FeatAbroadInterest, 25)>>)
  @@ 5 :> (0 :> <<FM(FeatAcademicStrength, 20)>>
          @@ 1 :> <<FM(FeatAcademicStrength, 65), FM(FeatTechAffinity, 50)>>
          @@ 2 :> <<FM(FeatAcademicStrength, 60), FM(FeatLeadershipScore, 60)>>
          @@ 3 :> <<FM(FeatAcademicStrength, 75), FM(FeatTechAffinity, 40), FM(FeatAbroadInterest, 20)>>
          @@ 4 :> <<FM(FeatAcademicStrength, 55), FM(FeatGovtInterest, 90)>>)
  @@ 6 :> (0 :> <<FM(FeatTechAffinity, 0)>>
          @@ 1 :> <<FM(FeatTechAffinity, 25)>>
          @@ 2 :> <<FM(FeatTechAffinity, 55), FM(FeatCareerInstability, 10)>>
          @@ 3 :> <<FM(FeatTechAffinity, 80), FM(FeatCareerInstability, 15)>>
          @@ 4 :> <<FM(FeatTechAffinity, 100), FM(FeatCareerInstability, 20), FM(FeatAbroadInterest, 15)>>)
  @@ 7 :> (0 :> <<FM(FeatAcademicStrength, 20), FM(FeatAbroadInterest, 5)>>
          @@ 1 :> <<FM(FeatAcademicStrength, 40), FM(FeatAbroadInterest, 20)>>
          @@ 2 :> <<FM(FeatAcademicStrength, 70), FM(FeatAbroadInterest, 60)>>
          @@ 3 :> <<FM(FeatAcademicStrength, 85), FM(FeatAbroadInterest, 85)>>)
  @@ 8 :> (0 :> <<FM(FeatAcademicStrength, 20), FM(FeatLeadershipScore, 10)>>
          @@ 1 :> <<FM(FeatAcademicStrength, 50), FM(FeatLeadershipScore, 30), FM(FeatTechAffinity, 20)>>
          @@ 2 :> <<FM(FeatAcademicStrength, 55), FM(FeatLeadershipScore, 60), FM(FeatTechAffinity, 30)>>
          @@ 3 :> <<FM(FeatAcademicStrength, 50), FM(FeatLeadershipScore, 85), FM(FeatTechAffinity, 35)>>)
  @@ 9 :> (0 :> <<FM(FeatFinancialPressure, 10), FM(FeatIncomeUrgency, 10)>>
          @@ 1 :> <<FM(FeatFinancialPressure, 35), FM(FeatIncomeUrgency, 30)>>
          @@ 2 :> <<FM(FeatFinancialPressure, 65), FM(FeatIncomeUrgency, 60), FM(FeatGovtInterest, 15)>>
          @@ 3 :> <<FM(FeatFinancialPressure, 90), FM(FeatIncomeUrgency, 85), FM(FeatGovtInterest, 25)>>)
  @@ 10 :> (0 :> <<FM(FeatFinancialPressure, 5), FM(FeatIncomeUrgency, 5)>>
          @@ 1 :> <<FM(FeatFinancialPressure, 30), FM(FeatIncomeUrgency, 25)>>
          @@ 2 :> <<FM(FeatFinancialPressure, 65), FM(FeatIncomeUrgency, 60), FM(FeatGovtInterest, 20)>>
          @@ 3 :> <<FM(FeatFinancialPressure, 95), FM(FeatIncomeUrgency, 90), FM(FeatGovtInterest, 30)>>)
  @@ 11 :> (0 :> <<FM(FeatIncomeUrgency, 5), FM(FeatAbroadInterest, 20)>>
          @@ 1 :> <<FM(FeatIncomeUrgency, 30)>>
          @@ 2 :> <<FM(FeatIncomeUrgency, 70), FM(FeatGovtInterest, 15)>>
          @@ 3 :> <<FM(FeatIncomeUrgency, 100), FM(FeatGovtInterest, 20)>>)
  @@ 12 :> (0 :> <<FM(FeatFinancialPressure, 5)>>
          @@ 1 :> <<FM(FeatFinancialPressure, 30)>>
          @@ 2 :> <<FM(FeatFinancialPressure, 55)>>
          @@ 3 :> <<FM(FeatFinancialPressure, 85)>>)
  @@ 13 :> (0 :> <<FM(FeatFinancialPressure, 90), FM(FeatIncomeUrgency, 80), FM(FeatGovtInterest, 25)>>
          @@ 1 :> <<FM(FeatFinancialPressure, 60), FM(FeatIncomeUrgency, 55), FM(FeatGovtInterest, 15)>>
          @@ 2 :> <<FM(FeatFinancialPressure, 30), FM(FeatIncomeUrgency, 25)>>
          @@ 3 :> <<FM(FeatFinancialPressure, 10), FM(FeatIncomeUrgency, 10), FM(FeatAbroadInterest, 15)>>
          @@ 4 :> <<FM(FeatFinancialPressure, 2), FM(FeatIncomeUrgency, 2), FM(FeatAbroadInterest, 25)>>)
  @@ 14 :> (0 :> <<FM(FeatFinancialPressure, 40), FM(FeatAbroadInterest, 5), FM(FeatGovtInterest, 20)>>
          @@ 1 :> <<FM(FeatFinancialPressure, 25), FM(FeatAbroadInterest, 15), FM(FeatGovtInterest, 10)>>
          @@ 2 :> <<FM(FeatFinancialPressure, 10), FM(FeatAbroadInterest, 35), FM(FeatTechAffinity, 20)>>
          @@ 3 :> <<FM(FeatFinancialPressure, 5), FM(FeatAbroadInterest, 55), FM(FeatLeadershipScore, 30), FM(FeatTechAffinity, 30)>>)
  @@ 15 :> (0 :> <<FM(FeatRiskTolerance, 5), FM(FeatGovtInterest, 55)>>
          @@ 1 :> <<FM(FeatRiskTolerance, 20), FM(FeatGovtInterest, 35)>>
          @@ 2 :> <<FM(FeatRiskTolerance, 50)>>
          @@ 3 :> <<FM(FeatRiskTolerance, 75), FM(FeatCareerInstability, 20)>>
          @@ 4 :> <<FM(FeatRiskTolerance, 100), FM(FeatCareerInstability, 35)>>)
  @@ 16 :> (0 :> <<FM(FeatLeadershipScore, 10)>>
          @@ 1 :> <<FM(FeatLeadershipScore, 35)>>
          @@ 2 :> <<FM(FeatLeadershipScore, 70), FM(FeatCareerInstability, 15)>>
          @@ 3 :> <<FM(FeatLeadershipScore, 100), FM(FeatCareerInstability, 25)>>)
  @@ 17 :> (0 :> <<FM(FeatRiskTolerance, 5), FM(FeatCareerInstability, 5), FM(FeatGovtInterest, 60)>>
          @@ 1 :> <<FM(FeatRiskTolerance, 25), FM(FeatCareerInstability, 25), FM(FeatGovtInterest, 25)>>
          @@ 2 :> <<FM(FeatRiskTolerance, 55), FM(FeatCareerInstability, 50), FM(FeatAbroadInterest, 15)>>
          @@ 3 :> <<FM(FeatRiskTolerance, 85), FM(FeatCareerInstability, 80), FM(FeatAbroadInterest, 20)>>)
  @@ 18 :> (0 :> <<FM(FeatRiskTolerance, 10), FM(FeatLeadershipScore, 5)>>
          @@ 1 :> <<FM(FeatRiskTolerance, 25), FM(FeatLeadershipScore, 20)>>
          @@ 2 :> <<FM(FeatRiskTolerance, 55), FM(FeatLeadershipScore, 50)>>
          @@ 3 :> <<FM(FeatRiskTolerance, 80), FM(FeatLeadershipScore, 70), FM(FeatCareerInstability, 20)>>)
  @@ 19 :> (0 :> <<FM(FeatGovtInterest, 50), FM(FeatRiskTolerance, 5)>>
          @@ 1 :> <<FM(FeatRiskTolerance, 25), FM(FeatGovtInterest, 20)>>
          @@ 2 :> <<FM(FeatRiskTolerance, 55), FM(FeatLeadershipScore, 35)>>
          @@ 3 :> <<FM(FeatRiskTolerance, 80), FM(FeatLeadershipScore, 50), FM(FeatCareerInstability, 30)>>)
  @@ 20 :> (0 :> <<FM(FeatGovtInterest, 40), FM(FeatTechAffinity, 5)>>
          @@ 1 :> <<FM(FeatTechAffinity, 30)>>
          @@ 2 :> <<FM(FeatTechAffinity, 65), FM(FeatAcademicStrength, 30), FM(FeatAbroadInterest, 15)>>
          @@ 3 :> <<FM(FeatTechAffinity, 85), FM(FeatAcademicStrength, 40), FM(FeatAbroadInterest, 25)>>)
  @@ 21 :> (0 :> <<FM(FeatGovtInterest, 30)>>
          @@ 1 :> <<FM(FeatAcademicStrength, 20)>>
          @@ 2 :> <<FM(FeatAcademicStrength, 45), FM(FeatTechAffinity, 30)>>
          @@ 3 :> <<FM(FeatAcademicStrength, 65), FM(FeatTechAffinity, 50), FM(FeatAbroadInterest, 20)>>)
  @@ 22 :> (0 :> <<FM(FeatLeadershipScore, 10)>>
          @@ 1 :> <<FM(FeatLeadershipScore, 30)>>
          @@ 2 :> <<FM(FeatLeadershipScore, 65), FM(FeatGovtInterest, 10)>>
          @@ 3 :> <<FM(FeatLeadershipScore, 90), FM(FeatGovtInterest, 15)>>)
  @@ 23 :> (0 :> <<FM(FeatGovtInterest, 0), FM(FeatRiskTolerance, 20)>>
          @@ 1 :> <<FM(FeatGovtInterest, 20)>>
          @@ 2 :> <<FM(FeatGovtInterest, 55), FM(FeatCareerInstability, 15)>>
          @@ 3 :> <<FM(FeatGovtInterest, 80), FM(FeatCareerInstability, 10)>>
          @@ 4 :> <<FM(FeatGovtInterest, 100)>>)
  @@ 24 :> (0 :> <<FM(FeatRiskTolerance, 5), FM(FeatGovtInterest, 15)>>
          @@ 1 :> <<FM(FeatRiskTolerance, 20), FM(FeatLeadershipScore, 15)>>
          @@ 2 :> <<FM(FeatRiskTolerance, 50), FM(FeatLeadershipScore, 40), FM(FeatCareerInstability, 40), FM(FeatTechAffinity, 15)>>
          @@ 3 :> <<FM(FeatRiskTolerance, 75), FM(FeatLeadershipScore, 65), FM(FeatCareerInstability, 60), FM(FeatTechAffinity, 25)>>
          @@ 4 :> <<FM(FeatRiskTolerance, 90), FM(FeatLeadershipScore, 80), FM(FeatCareerInstability, 75), FM(FeatTechAffinity, 30)>>)
  @@ 25 :> (0 :> <<FM(FeatTechAffinity, 5)>>
          @@ 1 :> <<FM(FeatTechAffinity, 25)>>
          @@ 2 :> <<FM(FeatTechAffinity, 55), FM(FeatLeadershipScore, 20), FM(FeatAbroadInterest, 20)>>
          @@ 3 :> <<FM(FeatTechAffinity, 75), FM(FeatLeadershipScore, 35), FM(FeatAbroadInterest, 30)>>)
  @@ 26 :> (0 :> <<FM(FeatAcademicStrength, 10)>>
          @@ 1 :> <<FM(FeatAcademicStrength, 30)>>
          @@ 2 :> <<FM(FeatAcademicStrength, 65), FM(FeatGovtInterest, 10)>>
          @@ 3 :> <<FM(FeatAcademicStrength, 90), FM(FeatGovtInterest, 15)>>)
  @@ 27 :> (0 :> <<FM(FeatAbroadInterest, 0), FM(FeatGovtInterest, 30)>>
          @@ 1 :> <<FM(FeatAbroadInterest, 30)>>
          @@ 2 :> <<FM(FeatAbroadInterest, 75), FM(FeatTechAffinity, 15)>>
          @@ 3 :> <<FM(FeatAbroadInterest, 100), FM(FeatTechAffinity, 20)>>)
  @@ 28 :> (0 :> <<FM(FeatIncomeUrgency, 60), FM(FeatFinancialPressure, 30), FM(FeatGovtInterest, 20)>>
          @@ 1 :> <<FM(FeatIncomeUrgency, 35), FM(FeatGovtInterest, 15)>>
          @@ 2 :> <<FM(FeatTechAffinity, 30), FM(FeatLeadershipScore, 20)>>
          @@ 3 :> <<FM(FeatLeadershipScore, 45), FM(FeatAbroadInterest, 30), FM(FeatTechAffinity, 20)>>
          @@ 4 :> <<FM(FeatAbroadInterest, 55), FM(FeatLeadershipScore, 40), FM(FeatTechAffinity, 35)>>)
  @@ 29 :> (0 :> <<FM(FeatTechAffinity, 95)>>
          @@ 1 :> <<FM(FeatLeadershipScore, 65), FM(FeatTechAffinity, 15)>>
          @@ 2 :> <<FM(FeatGovtInterest, 90)>>
          @@ 3 :> <<FM(FeatAcademicStrength, 40), FM(FeatAbroadInterest, 30)>>
          @@ 4 :> <<FM(FeatAcademicStrength, 70), FM(FeatGovtInterest, 15)>>)
  @@ 30 :> (0 :> <<FM(FeatTechAffinity, 90), FM(FeatAcademicStrength, 30)>>
          @@ 1 :> <<FM(FeatLeadershipScore, 85), FM(FeatTechAffinity, 15)>>
          @@ 2 :> <<FM(FeatGovtInterest, 100)>>
          @@ 3 :> <<FM(FeatRiskTolerance, 85), FM(FeatLeadershipScore, 75), FM(FeatCareerInstability, 55)>>
          @@ 4 :> <<FM(FeatAcademicStrength, 85), FM(FeatGovtInterest, 15)>>
          @@ 5 :> <<FM(FeatAbroadInterest, 95), FM(FeatTechAffinity, 30)>>)


\* lines 296-304: index of the first catalog entry with this ID, 0 when none
RECURSIVE FindQuestion(_, _, _)
FindQuestion(questions, id, i) ==
  IF i > Len(questions) THEN 0
  ELSE IF questions[i].ID = id THEN i
  ELSE FindQuestion(questions, id, i + 1)

\* an unknown question ID read as a display order
AnswerMappingsByID(answer, questions) ==
  LET qi    == FindQuestion(questions, answer.QuestionID, 1)
      order == IF qi = 0 THEN answer.QuestionID ELSE questions[qi].DisplayOrder
  IN IF order \notin DOMAIN questionFeatureMap THEN <<>>
     ELSE IF answer.Selected \notin DOMAIN questionFeatureMap[order] THEN <<>>
     ELSE questionFeatureMap[order][answer.Selected]

\* lines 305-317: the feature mappings of one answer; none when the answer is skipped
AnswerMappings(answer, questions) ==
  LET qi == FindQuestion(questions, answer.QuestionID, 1) IN
  IF qi = 0 THEN <<>>
  ELSE IF questions[qi].DisplayOrder \notin DOMAIN questionFeatureMap THEN <<>>
  ELSE IF answer.Selected \notin DOMAIN questionFeatureMap[questions[qi].DisplayOrder] THEN <<>>
  ELSE questionFeatureMap[questions[qi].DisplayOrder][answer.Selected]

\* lines 320-323: profile.Features[m.FeatureIndex] += m.Weight; featureCounts[m.FeatureIndex]++
RECURSIVE AccumulateMappings(_, _, _)
AccumulateMappings(acc, mappings, j) ==
  IF j > Len(mappings) THEN acc
  ELSE AccumulateMappings(
         [sums   |-> [acc.sums EXCEPT ![mappings[j].FeatureIndex] = @ + mappings[j].Weight],
          counts |-> [acc.counts EXCEPT ![mappings[j].FeatureIndex] = @ + 1]],
         mappings, j + 1)

\* lines 294-324: the loop over the answers, in list order
RECURSIVE AccumulateAnswers(_, _, _, _)
AccumulateAnswers(acc, answers, questions, i) ==
  IF i > Len(answers) THEN acc
  ELSE AccumulateAnswers(AccumulateMappings(acc, AnswerMappings(answers[i], questions), 1),
                         answers, questions, i + 1)

\* the division by the contribution count left out
NormalizeFeatureSum(sum, count) == sum * CountLcm

\* lines 327-331: sum (hundredths) / count, as a feature in 1/FScale
NormalizeFeature(sum, count) ==
  IF count > 0 THEN (sum * CountLcm) \div count ELSE sum * CountLcm

\* lines 334-341
ClampFeature(x) == IF x > FScale THEN FScale ELSE IF x < 0 THEN 0 ELSE x

\* the accumulated sum left as it is: neither divided by the count nor clamped
FinalizeFeatureSum(sum, count) == sum * CountLcm

\* lines 326-341: mean, then clamp
FinalizeFeature(sum, count) == ClampFeature(NormalizeFeature(sum, count))

AggregateProfile(answers, questions) ==
  LET acc == AccumulateAnswers([sums |-> ZeroProfile, counts |-> ZeroProfile], answers, questions, 1)
  IN [i \in Features |-> FinalizeFeature(acc.sums[i], acc.counts[i])]

(* ---------------- aggregator.go in float64 arithmetic ------------------ *)
\* UserProfile.Features is [NumFeatures]float64. A float64 that is zero or lies
\* in [2^-9, 8) is a whole multiple of 2^-GridBits; it is held as that whole
\* number, a little-endian sequence of Limbs digits in base LimbBase. Every
\* weight of questionFeatureMap, every sum of at most 7 of them and every
\* mean over at most 5 contributions lies in that range.
GridBits == 62
LimbBits == 16
LimbBase == 65536
Limbs == 5
\* float64 carries 53 significant bits
Mantissa == 53

RECURSIVE Pow2(_)
Pow2(n) == IF n = 0 THEN 1 ELSE 2 * Pow2(n - 1)

Zero64 == [i \in 1 .. Limbs |-> 0]

\* the whole number k * 2^GridBits: the integer k on the grid
Whole64(k) ==
  [i \in 1 .. Limbs |->
     IF i = 4 THEN (k * Pow2(GridBits - 3 * LimbBits)) % LimbBase
     ELSE IF i = 5 THEN (k * Pow2(GridBits - 3 * LimbBits)) \div LimbBase
     ELSE 0]

RECURSIVE AddFrom(_, _, _, _)
AddFrom(a, b, i, carry) ==
  IF i > Limbs THEN <<>>
  ELSE <<(a[i] + b[i] + carry) % LimbBase>>
         \o AddFrom(a, b, i + 1, (a[i] + b[i] + carry) \div LimbBase)

\* the exact sum of two grid numbers
BigAdd(a, b) == AddFrom(a, b, 1, 0)

\* a[1..i] divided by n < 2^15, most significant limb first; rem is carried in
RECURSIVE QuotFrom(_, _, _, _)
QuotFrom(a, n, i, rem) ==
  IF i = 0 THEN <<>>
  ELSE Append(QuotFrom(a, n, i - 1, (rem * LimbBase + a[i]) % n),
              (rem * LimbBase + a[i]) \div n)

RECURSIVE RemFrom(_, _, _, _)
RemFrom(a, n, i, rem) ==
  IF i = 0 THEN rem ELSE RemFrom(a, n, i - 1, (rem * LimbBase + a[i]) % n)

\* quotient and remainder of a grid number by a small integer
BigDivSmall(a, n) == [q |-> QuotFrom(a, n, Limbs, 0), rem |-> RemFrom(a, n, Limbs, 0)]

RECURSIVE MulFrom(_, _, _, _)
MulFrom(a, n, i, carry) ==
  IF i > Limbs THEN <<>>
  ELSE <<(a[i] * n + carry) % LimbBase>>
         \o MulFrom(a, n, i + 1, (a[i] * n + carry) \div LimbBase)

\* a grid number times a small integer
BigMulSmall(a, n) == MulFrom(a, n, 1, 0)

RECURSIVE SmallBitLen(_)
SmallBitLen(x) == IF x = 0 THEN 0 ELSE 1 + SmallBitLen(x \div 2)

RECURSIVE BitLenFrom(_, _)
BitLenFrom(a, i) ==
  IF i = 0 THEN 0
  ELSE IF a[i] # 0 THEN LimbBits * (i - 1) + SmallBitLen(a[i])
  ELSE BitLenFrom(a, i - 1)

\* number of significant bits of a grid number
BitLen(a) == BitLenFrom(a, Limbs)

RECURSIVE GreaterFrom(_, _, _)
GreaterFrom(a, b, i) ==
  IF i = 0 THEN FALSE
  ELSE IF a[i] # b[i] THEN a[i] > b[i]
  ELSE GreaterFrom(a, b, i - 1)

\* a > b
Greater64(a, b) == GreaterFrom(a, b, Limbs)

\* bits beyond the Mantissa most significant ones of a number of len bits
Dropped(len) == IF len > Mantissa THEN len - Mantissa ELSE 0

One64 == [i \in 1 .. Limbs |-> IF i = 1 THEN 1 ELSE 0]

\* d.q units kept, d.rem + rem/n of a unit dropped: to nearest, ties to even
Rounded(d, rem, n, unit) ==
  IF \/ 2 * (d.rem * n + rem) > unit * n
     \/ 2 * (d.rem * n + rem) = unit * n /\ d.q[1] % 2 = 1
  THEN BigMulSmall(BigAdd(d.q, One64), unit)
  ELSE BigMulSmall(d.q, unit)

RoundAt(q, rem, n, unit) == Rounded(BigDivSmall(q, unit), rem, n, unit)

\* IEEE 754 round to nearest, ties to even, of the exact value q + rem/n to
\* Mantissa significant bits
Round64(q, rem, n) == RoundAt(q, rem, n, Pow2(Dropped(BitLen(q))))

\* the float64 operator +
Add64(a, b) == Round64(BigAdd(a, b), 0, 1)

Quotient64(d, n) == Round64(d.q, d.rem, n)

\* the float64 operator / with divisor float64(n), n a small positive integer
Div64(a, n) == Quotient64(BigDivSmall(a, n), n)

\* the float64 constant written as the decimal literal w/100
Float64(w) == Div64(Whole64(w), 100)

\* lines 320-323 on float64 sums
RECURSIVE AccumulateMappings64(_, _, _)
AccumulateMappings64(acc, mappings, j) ==
  IF j > Len(mappings) THEN acc
  ELSE AccumulateMappings64(
         [sums   |-> [acc.sums EXCEPT ![mappings[j].FeatureIndex] =
                        Add64(@, Float64(mappings[j].Weight))],
          counts |-> [acc.counts EXCEPT ![mappings[j].FeatureIndex] = @ + 1]],
         mappings, j + 1)

\* lines 294-324 on float64 sums, in list order
RECURSIVE AccumulateAnswers64(_, _, _, _)
AccumulateAnswers64(acc, answers, questions, i) ==
  IF i > Len(answers) THEN acc
  ELSE AccumulateAnswers64(AccumulateMappings64(acc, AnswerMappings(answers[i], questions), 1),
                           answers, questions, i + 1)

\* lines 334-341 (no float64 is below 0 here)
ClampFeature64(x) == IF Greater64(x, Whole64(1)) THEN Whole64(1) ELSE x

\* lines 326-341 on a float64 sum: mean, then clamp
FinalizeFeature64(sum, count) ==
  ClampFeature64(IF count > 0 THEN Div64(sum, count) ELSE sum)

\* AggregateProfile as the build computes it
AggregateProfile64(answers, questions) ==
  LET acc == AccumulateAnswers64([sums   |-> [i \in Features |-> Zero64],
                                  counts |-> ZeroProfile], answers, questions, 1)
  IN [i \in Features |-> FinalizeFeature64(acc.sums[i], acc.counts[i])]

(* ------------------------------- scorer.go ----------------------------- *)
RECURSIVE DotFrom(_, _, _, _)
DotFrom(a, b, i, n) == IF i >= n THEN 0 ELSE a[i] * b[i] + DotFrom(a, b, i + 1, n)

\* the last feature left out of the sum
DotSkipLast(a, b) == DotFrom(a, b, 0, NumFeatures - 1)

\* a in 1/FScale, b in hundredths; the result in 1/(FScale*100)
Dot(a, b) ==
  LET la == Cardinality(DOMAIN a)
      lb == Cardinality(DOMAIN b)
  IN DotFrom(a, b, 0, IF lb < la THEN lb ELSE la)

\* make([]RawCareerScore, NumCareers): zero-valued entries
ZeroScores == [i \in 0 .. (NumCareers - 1) |-> [Career |-> 0, Score |-> 0]]

RECURSIVE FillScores(_, _, _)
FillScores(scores, userVec, k) ==
  IF k > Len(AllCareers) THEN scores
  ELSE FillScores([scores EXCEPT ![AllCareers[k]] =
                     [Career |-> AllCareers[k],
                      Score  |-> Dot(userVec, GetCareerWeights(AllCareers[k])) * PenaltyScale]],
                  userVec, k + 1)

ComputeRawScores(profile) == FillScores(ZeroScores, profile, 1)

(* -------------------------------- risk.go ------------------------------ *)
\* 6.0 counted as High
RiskLevelHighInclusive(riskScore) ==
  IF riskScore >= 600 THEN "High"
  ELSE IF riskScore > 300 THEN "Medium"
  ELSE "Low"

\* 3.0 counted as Medium
RiskLevelMediumInclusive(riskScore) ==
  IF riskScore > 600 THEN "High"
  ELSE IF riskScore >= 300 THEN "Medium"
  ELSE "Low"

RiskLevel(riskScore) ==
  IF riskScore > 600 THEN "High"
  ELSE IF riskScore > 300 THEN "Medium"
  ELSE "Low"

\* the coefficients of income urgency and financial pressure exchanged
ComputeRiskSwapped(profile) ==
  LET incomeUrgency     == profile[FeatIncomeUrgency] * 10
      financialPressure == profile[FeatFinancialPressure] * 10
      riskTolerance     == profile[FeatRiskTolerance] * 10
      careerInstability == profile[FeatCareerInstability] * 10
      raw == incomeUrgency * 25 + financialPressure * 35 + riskTolerance * 20 + careerInstability * 20
      riskScore == RoundDiv(raw * 100, FScale * 100)
  IN [Score   |-> riskScore,
      Level   |-> RiskLevel(riskScore),
      Factors |-> [income_urgency     |-> RoundDiv(incomeUrgency * 100, FScale),
                   financial_pressure |-> RoundDiv(financialPressure * 100, FScale),
                   risk_tolerance     |-> RoundDiv(riskTolerance * 100, FScale),
                   career_instability |-> RoundDiv(careerInstability * 100, FScale)]]

ComputeRisk(profile) ==
  LET incomeUrgency     == profile[FeatIncomeUrgency] * 10
      financialPressure == profile[FeatFinancialPressure] * 10
      riskTolerance     == profile[FeatRiskTolerance] * 10
      careerInstability == profile[FeatCareerInstability] * 10
      \* in 1/(FScale*100)
      raw == incomeUrgency * 35 + financialPressure * 25 + riskTolerance * 20 + careerInstability * 20
      riskScore == RoundDiv(raw * 100, FScale * 100)
  IN [Score   |-> riskScore,
      Level   |-> RiskLevel(riskScore),
      Factors |-> [income_urgency     |-> RoundDiv(incomeUrgency * 100, FScale),
                   financial_pressure |-> RoundDiv(financialPressure * 100, FScale),
                   risk_tolerance     |-> RoundDiv(riskTolerance * 100, FScale),
                   career_instability |-> RoundDiv(careerInstability * 100, FScale)]]

Rule(c, f, t, p, r) == [Career |-> c, Feature |-> f, Threshold |-> t, Penalty |-> p, Reason |-> r]

riskPenaltyRules ==
  << Rule(CareerStartup, FeatFinancialPressure, 60, 20, "High financial pressure makes startup risky"),
     Rule(CareerStartup, FeatIncomeUrgency, 70, 15, "Urgent income need conflicts with startup timeline"),
     Rule(CareerMSAbroad, FeatFinancialPressure, 65, 15, "High financial pressure makes MS Abroad difficult"),
     Rule(CareerMSAbroad, FeatIncomeUrgency, 60, 10, "Income urgency conflicts with 2-year study abroad"),
     Rule(CareerHigherStudies, FeatIncomeUrgency, 65, 25, "Urgent income need conflicts with extended studies"),
     Rule(CareerMBA, FeatFinancialPressure, 70, 15, "High financial pressure makes MBA fees challenging"),
     Rule(CareerGovt, FeatRiskTolerance, 80, 10, "High risk appetite may lead to dissatisfaction with govt job security"),
     Rule(CareerCreative, FeatFinancialPressure, 70, 15, "High financial pressure makes freelance/creative career risky"),
     Rule(CareerCreative, FeatIncomeUrgency, 70, 10, "Urgent income need conflicts with creative career ramp-up"),
     Rule(CareerHealthcare, FeatIncomeUrgency, 70, 20, "Urgent income need conflicts with long medical training (5.5+ years)"),
     Rule(CareerHealthcare, FeatRiskTolerance, 80, 8, "High risk appetite may lead to dissatisfaction with structured medical career") >>

\* the threshold itself fires the rule
ConditionInclusive(rule, profile) == profile[rule.Feature] * 100 >= rule.Threshold * FScale

\* rule.Condition(profile): p.Feature() > Threshold
Condition(rule, profile) == profile[rule.Feature] * 100 > rule.Threshold * FScale

\* adjusted[idx].Score *= (1.0 - rule.Penalty)
PenalisedScore(score, penalty) == MulHundredths(score, 100 - penalty)

\* appliedPenalties[c] = append(appliedPenalties[c], p)
AppendPenalty(applied, c, p) ==
  IF c \in DOMAIN applied
    THEN [applied EXCEPT ![c] = Append(@, p)]
    ELSE (c :> <<p>>) @@ applied

RECURSIVE ApplyRules(_, _, _)
ApplyRules(st, profile, k) ==
  IF k > Len(riskPenaltyRules) THEN st
  ELSE LET rule == riskPenaltyRules[k]
           idx  == rule.Career
       IN IF Condition(rule, profile) /\ idx < Cardinality(DOMAIN st.adjusted)
            THEN ApplyRules(
                   [adjusted |-> [st.adjusted EXCEPT ![idx].Score = PenalisedScore(@, rule.Penalty)],
                    applied  |-> AppendPenalty(st.applied, rule.Career,
                                               [Penalty |-> rule.Penalty, Reason |-> rule.Reason])],
                   profile, k + 1)
            ELSE ApplyRules(st, profile, k + 1)

RECURSIVE SumFired(_, _, _)
SumFired(c, profile, k) ==
  IF k > Len(riskPenaltyRules) THEN 0
  ELSE (IF riskPenaltyRules[k].Career = c /\ Condition(riskPenaltyRules[k], profile)
          THEN riskPenaltyRules[k].Penalty ELSE 0) + SumFired(c, profile, k + 1)

\* penalties added up before they are applied: original * (1 - (p1 + p2))
ApplyRiskPenaltiesAdditive(scores, profile) ==
  [adjusted |-> [c \in DOMAIN scores |->
                   [scores[c] EXCEPT !.Score = MulHundredths(@, 100 - SumFired(c, profile, 1))]],
   applied  |-> ApplyRules([adjusted |-> scores, applied |-> <<>>], profile, 1).applied]

\* the adjusted scores and the map of applied penalties
ApplyRiskPenalties(scores, profile) ==
  ApplyRules([adjusted |-> scores, applied |-> <<>>], profile, 1)

(* ---------------------- risk.go: NormalizeAndRank ---------------------- *)
RECURSIVE MinScoreFrom(_, _, _, _)
MinScoreFrom(scores, i, n, m) ==
  IF i >= n THEN m
  ELSE MinScoreFrom(scores, i + 1, n, IF scores[i].Score < m THEN scores[i].Score ELSE m)

RECURSIVE MaxScoreFrom(_, _, _, _)
MaxScoreFrom(scores, i, n, m) ==
  IF i >= n THEN m
  ELSE MaxScoreFrom(scores, i + 1, n, IF scores[i].Score > m THEN scores[i].Score ELSE m)

\* lines 212-218: one NormalizedScore
NormalizeOne(s, minScore, scoreRange) ==
  [Career     |-> s.Career,
   RawScore   |-> RoundScaled(s.Score, ScoreScale, 3),
   Normalized |-> RoundScaled(s.Score - minScore, scoreRange, 3),
   Percentage |-> RoundScaled(s.Score - minScore, scoreRange, 4)]

\* ties count as out of order
LessOrEqual(a, i, j) == a[i].Normalized >= a[j].Normalized

\* the comparison handed to sort.Slice
Less(a, i, j) == a[i].Normalized > a[j].Normalized

Swap(a, i, j) == [a EXCEPT ![i] = a[j], ![j] = a[i]]

RECURSIVE InsertDown(_, _)
InsertDown(a, j) ==
  IF j > 0 /\ Less(a, j, j - 1) THEN InsertDown(Swap(a, j, j - 1), j - 1) ELSE a

RECURSIVE InsertionSort(_, _, _)
InsertionSort(a, i, n) ==
  IF i >= n THEN a ELSE InsertionSort(InsertDown(a, i), i + 1, n)

\* sort.Slice on at most 12 elements is an insertion sort
\* the slice left in input order
SortSliceUnsorted(a) == a

SortSlice(a) == InsertionSort(a, 1, Cardinality(DOMAIN a))

\* the ratio Second / Top instead of the gap
ComputeConfidenceRatio(normalized) ==
  IF Cardinality(DOMAIN normalized) >= 2 /\ normalized[0].Normalized > 0
    THEN RoundScaled(normalized[1].Normalized, normalized[0].Normalized, 3)
    ELSE 0

\* lines 227-231, in thousandths
ComputeConfidence(normalized) ==
  IF Cardinality(DOMAIN normalized) >= 2 /\ normalized[0].Normalized > 0
    THEN RoundScaled(normalized[0].Normalized - normalized[1].Normalized, normalized[0].Normalized, 3)
    ELSE 0

\* RankedResult{}: the zero value
EmptyRanked == [Rankings |-> <<>>, Confidence |-> 0, IsMultiFit |-> FALSE]

\* the multi-fit comparison turned around
NormalizeAndRankSingleFit(scores) ==
  LET n == Cardinality(DOMAIN scores) IN
  IF n = 0 THEN EmptyRanked
  ELSE
    LET minScore   == MinScoreFrom(scores, 1, n, scores[0].Score)
        maxScore   == MaxScoreFrom(scores, 1, n, scores[0].Score)
        scoreRange == IF maxScore - minScore = 0 THEN ScoreScale ELSE maxScore - minScore
        normalized == SortSlice([i \in 0 .. (n - 1) |-> NormalizeOne(scores[i], minScore, scoreRange)])
        confidence == ComputeConfidence(normalized)
    IN [Rankings   |-> normalized,
        Confidence |-> confidence,
        IsMultiFit |-> confidence > 100]

\* lines 187-238
NormalizeAndRank(scores) ==
  LET n == Cardinality(DOMAIN scores) IN
  IF n = 0 THEN EmptyRanked
  ELSE
    LET minScore   == MinScoreFrom(scores, 1, n, scores[0].Score)
        maxScore   == MaxScoreFrom(scores, 1, n, scores[0].Score)
        scoreRange == IF maxScore - minScore = 0 THEN ScoreScale ELSE maxScore - minScore
        normalized == SortSlice([i \in 0 .. (n - 1) |-> NormalizeOne(scores[i], minScore, scoreRange)])
        confidence == ComputeConfidence(normalized)
    IN [Rankings   |-> normalized,
        Confidence |-> confidence,
        IsMultiFit |-> confidence < 100]

(* ------------------------- explanation generator ----------------------- *)
FeatureNames ==
  Vec(<< "Academic Strength", "Financial Pressure", "Risk Tolerance", "Leadership",
         "Tech Affinity", "Govt Interest", "Abroad Interest", "Income Urgency",
         "Career Instability" >>)

\* userVec[i] * weights[i], in 1/(FScale*100)
Contrib(profile, weights, i) == profile[i] * weights[i]

RECURSIVE TotalPositiveFrom(_, _, _)
TotalPositiveFrom(profile, weights, i) ==
  IF i >= NumFeatures THEN 0
  ELSE (IF Contrib(profile, weights, i) > 0 THEN Contrib(profile, weights, i) ELSE 0)
         + TotalPositiveFrom(profile, weights, i + 1)

\* math.Round((Contribution / totalPositive) * 10000) / 100, Contribution in thousandths
SharePercentage(contribution, totalPositive) ==
  RoundScaled(contribution * FScale, totalPositive * 10, 4)

\* one FeatureContribution with its Percentage
ContributionOf(profile, weights, totalPositive, i) ==
  LET contribution == RoundScaled(Contrib(profile, weights, i), FScale * 100, 3) IN
  [Feature      |-> FeatureNames[i],
   UserValue    |-> RoundScaled(profile[i], FScale, 3),
   CareerWeight |-> weights[i],
   Contribution |-> contribution,
   Percentage   |-> IF totalPositive > 0 /\ contribution > 0
                      THEN SharePercentage(contribution, totalPositive)
                      ELSE 0]

\* |Contribution| ascending
LessContributionAscending(a, i, j) == Abs(a[i].Contribution) < Abs(a[j].Contribution)

\* the comparison handed to sort.Slice: |Contribution| descending
LessContribution(a, i, j) == Abs(a[i].Contribution) > Abs(a[j].Contribution)

RECURSIVE InsertDownContribution(_, _)
InsertDownContribution(a, j) ==
  IF j > 0 /\ LessContribution(a, j, j - 1)
    THEN InsertDownContribution([a EXCEPT ![j] = a[j - 1], ![j - 1] = a[j]], j - 1)
    ELSE a

RECURSIVE SortContributions(_, _, _)
SortContributions(a, i, n) ==
  IF i >= n THEN a ELSE SortContributions(InsertDownContribution(a, i), i + 1, n)

\* fmt "%.0f" of n/d for n >= 0, d > 0: nearest integer, halves to even
FormatWhole(n, d) ==
  LET q == n \div d
      r == n % d
  IN IF 2 * r > d \/ (2 * r = d /\ q % 2 = 1) THEN q + 1 ELSE q

\* the "+NN%" lines: the first four factors with a positive contribution
RECURSIVE PositiveLines(_, _, _)
PositiveLines(contributions, i, count) ==
  IF i >= NumFeatures THEN <<>>
  ELSE IF contributions[i].Contribution > 0 /\ count < 4
    THEN <<[Kind |-> "factor", Feature |-> contributions[i].Feature,
            Percent |-> FormatWhole(contributions[i].Percentage, 100), Inf |-> FALSE]>>
           \o PositiveLines(contributions, i + 1, count + 1)
    ELSE PositiveLines(contributions, i + 1, count)

\* the "caution: NN% drag" lines: |Contribution / totalPositive| * 100, which
\* is +Inf when totalPositive is 0
RECURSIVE DragLines(_, _, _)
DragLines(contributions, totalPositive, i) ==
  IF i >= NumFeatures THEN <<>>
  ELSE IF contributions[i].Contribution < 0 /\ Abs(contributions[i].Contribution) > 50
    THEN <<[Kind |-> "drag", Feature |-> contributions[i].Feature,
            Percent |-> IF totalPositive = 0 THEN 0
                        ELSE FormatWhole(Abs(contributions[i].Contribution) * FScale * 10, totalPositive),
            Inf |-> totalPositive = 0]>>
           \o DragLines(contributions, totalPositive, i + 1)
    ELSE DragLines(contributions, totalPositive, i + 1)

\* the "-NN%: reason" lines
PenaltyLines(penalties) ==
  [k \in 1 .. Len(penalties) |->
     [Kind |-> "penalty", Feature |-> penalties[k].Reason, Percent |-> penalties[k].Penalty, Inf |-> FALSE]]

GenerateExplanation(career, profile, penalties) ==
  LET weights       == GetCareerWeights(career)
      totalPositive == TotalPositiveFrom(profile, weights, 0)
      contributions == SortContributions(
                         [i \in Features |-> ContributionOf(profile, weights, totalPositive, i)],
                         1, NumFeatures)
  IN [Career        |-> career,
      TopFactors    |-> contributions,
      Summary       |-> PositiveLines(contributions, 0, 0)
                          \o DragLines(contributions, totalPositive, 0)
                          \o PenaltyLines(penalties),
      RiskPenalties |-> penalties]

\* an explanation for every ranked career, the cap of 3 left out
GenerateAllExplanations(rankings, profile, penalties) ==
  [i \in DOMAIN rankings |->
     GenerateExplanation(rankings[i].Career, profile,
                         IF rankings[i].Career \in DOMAIN penalties
                           THEN penalties[rankings[i].Career] ELSE <<>>)]

GenerateTop3Explanations(rankings, profile, penalties) ==
  LET n == IF Cardinality(DOMAIN rankings) < 3 THEN Cardinality(DOMAIN rankings) ELSE 3 IN
  [i \in 0 .. (n - 1) |->
     GenerateExplanation(rankings[i].Career, profile,
                         IF rankings[i].Career \in DOMAIN penalties
                           THEN penalties[rankings[i].Career] ELSE <<>>)]

(* ------------------------------ scoring.go ----------------------------- *)
careerLabels ==
  (CareerIT :> "IT / Software Jobs") @@ (CareerMBA :> "MBA (India)") @@
  (CareerGovt :> "Government Exams") @@ (CareerStartup :> "Startup / Entrepreneurship") @@
  (CareerHigherStudies :> "Higher Studies (India)") @@ (CareerMSAbroad :> "MS Abroad")

\* Career.String(); labels of unknown careers are kept as the number
CareerString(c) == IF c \in DOMAIN careerLabels THEN careerLabels[c] ELSE c

\* steps 2-5 of ComputeResult on an aggregated profile
ScoreProfile(p) ==
  LET raw == ComputeRawScores(p)
      pen == ApplyRiskPenalties(raw, p)
  IN [profile   |-> p,
      rawScores |-> raw,
      risk      |-> ComputeRisk(p),
      adjusted  |-> pen.adjusted,
      applied   |-> pen.applied,
      ranked    |-> NormalizeAndRank(pen.adjusted)]

\* the guard of lines 77-79 left out
ResultErrorSilent(st) == ""

\* a profile with every feature 0 reported as an error
ResultErrorOnZeroProfile(st) ==
  IF Cardinality(DOMAIN st.ranked.Rankings) = 0 \/ st.profile = ZeroProfile
    THEN "no career scores computed" ELSE ""

\* lines 77-79: the error of a call that ranked no career
ResultError(st) ==
  IF Cardinality(DOMAIN st.ranked.Rankings) = 0 THEN "no career scores computed" ELSE ""

\* steps 6-9: the DTO handed back, nil with an error
BuildResult(st) ==
  IF Cardinality(DOMAIN st.ranked.Rankings) = 0
    THEN <<>>
    ELSE [Scores |-> [i \in DOMAIN st.ranked.Rankings |->
                        [Category   |-> CareerString(st.ranked.Rankings[i].Career),
                         Score      |-> RoundDiv(st.ranked.Rankings[i].RawScore, 10),
                         MaxScore   |-> RoundDiv(st.ranked.Rankings[0].RawScore, 10),
                         Percentage |-> st.ranked.Rankings[i].Percentage]],
          BestCareerPath |-> CareerString(st.ranked.Rankings[0].Career),
          Confidence     |-> st.ranked.Confidence,
          IsMultiFit     |-> st.ranked.IsMultiFit,
          Risk           |-> st.risk,
          Explanations   |-> GenerateTop3Explanations(st.ranked.Rankings, st.profile, st.applied),
          Profile        |-> [i \in Features |-> RoundScaled(st.profile[i], FScale, 3)]]

(* -------------------------------- state -------------------------------- *)
VARIABLES questions, answers, pc, profile, rawScores, risk, adjusted, applied, ranked, result, err,
          cfg, assessments, call, response, calls, heap

vars == <<questions, answers, pc, profile, rawScores, risk, adjusted, applied, ranked, result, err,
          cfg, assessments, call, response, calls, heap>>

\* the state of the service layer around the engine
svcVars == <<cfg, assessments, call, response>>

\* the locals of ComputeResult calls running side by side, and the memory they point into
memVars == <<calls, heap>>

\* question IDs of submitted answers range over 1..MaxQuestionID
MaxQuestionID == 4

Question(id, order) == [ID |-> id, DisplayOrder |-> order]

\* catalogs: one with a display order outside the feature map and an ID left
\* out, one with a repeated ID
Catalogs ==
  { << Question(1, 9), Question(2, 15), Question(3, 31) >>,
    << Question(1, 12), Question(1, 30), Question(2, 11), Question(3, 24), Question(4, 2) >> }

\* the upper options of each question; the last is unmapped for four-option questions
AnswerItems == [QuestionID : 1 .. MaxQuestionID, Selected : 2 .. MaxOption]

ZeroRisk == [Score |-> 0, Level |-> "",
             Factors |-> [income_urgency |-> 0, financial_pressure |-> 0,
                          risk_tolerance |-> 0, career_instability |-> 0]]

NoOutput ==
  /\ rawScores = <<>>
  /\ risk = ZeroRisk
  /\ applied = <<>>
  /\ ranked = EmptyRanked
  /\ result = <<>>
  /\ err = ""

\* Config with no LLM provider configured
NoConfig == [LLMProvider |-> "", LLMApiKey |-> ""]

NoCall == [Op |-> "none", UserID |-> 0, AssessmentID |-> 0, Message |-> {},
           Fetch |-> "none", LLM |-> "none", Store |-> "none"]

NoResponse == [Err |-> "", Body |-> <<>>]

\* the engine called on its own: no service request made, nothing stored
NoService ==
  /\ cfg = NoConfig
  /\ assessments = <<>>
  /\ call = NoCall
  /\ response = NoResponse

\* one call at a time, its locals held in the variables above
NoCalls ==
  /\ calls = <<>>
  /\ heap = <<>>

Init ==
  /\ questions \in Catalogs
  /\ answers = <<>>
  /\ pc = "input"
  /\ profile = ZeroProfile
  /\ adjusted = <<>>
  /\ NoOutput
  /\ NoService
  /\ NoCalls

\* the caller appends one answer to the submission
AddAnswer ==
  /\ pc = "input"
  /\ Len(answers) < MaxAnswers
  /\ \E a \in AnswerItems : answers' = Append(answers, a)
  /\ UNCHANGED <<questions, pc, profile, rawScores, risk, adjusted, applied, ranked, result, err>>
  /\ UNCHANGED svcVars
  /\ UNCHANGED memVars

Publish(st) ==
  /\ profile' = st.profile
  /\ rawScores' = st.rawScores
  /\ risk' = st.risk
  /\ adjusted' = st.adjusted
  /\ applied' = st.applied
  /\ ranked' = st.ranked
  /\ result' = BuildResult(st)
  /\ err' = ResultError(st)
  /\ pc' = "done"

\* ScoringEngine.ComputeResult(answers, questions)
ComputeResult ==
  /\ pc = "input"
  /\ Publish(ScoreProfile(AggregateProfile(answers, questions)))
  /\ UNCHANGED <<questions, answers>>
  /\ UNCHANGED svcVars
  /\ UNCHANGED memVars

Next == AddAnswer \/ ComputeResult

Spec == Init /\ [][Next]_vars

(* ---------------- the pipeline on a directly given profile -------------- *)
\* feature values in hundredths: at and just above every rule threshold
ThresholdGrid == {0, 30, 60, 61, 65, 66, 70, 71, 80, 81, 100}
ToleranceGrid == {0, 30, 60, 80, 81, 100}
InstabilityGrid == {0, 30, 60, 100}
StrengthGrid == {<<10, 10>>, <<90, 95>>}

GridProfile(fp, iu, rt, ci, st) ==
  [i \in Features |->
     CountLcm * (CASE i = FeatFinancialPressure -> fp
                   [] i = FeatIncomeUrgency -> iu
                   [] i = FeatRiskTolerance -> rt
                   [] i = FeatCareerInstability -> ci
                   [] i = FeatAcademicStrength -> st[1]
                   [] i = FeatTechAffinity -> st[2]
                   [] OTHER -> 10)]

\* AcademicStrength 0.9, TechAffinity 0.95, the other seven features 0.1
ScenarioProfile == GridProfile(10, 10, 10, 10, <<90, 95>>)

\* the profile of a student who answers option 2 to questions 9 and 19
NearTieProfile ==
  AggregateProfile(<< [QuestionID |-> 1, Selected |-> 2], [QuestionID |-> 2, Selected |-> 2] >>,
                   << Question(1, 9), Question(2, 19) >>)

InitProfile ==
  /\ questions = <<>>
  /\ answers = <<>>
  /\ pc = "profile"
  /\ \/ \E fp \in ThresholdGrid, iu \in ThresholdGrid, rt \in ToleranceGrid,
           ci \in InstabilityGrid, st \in StrengthGrid :
          profile = GridProfile(fp, iu, rt, ci, st)
     \/ profile = ScenarioProfile
     \/ profile = NearTieProfile
  /\ adjusted = <<>>
  /\ NoOutput
  /\ NoService
  /\ NoCalls

\* steps 2-9 of ComputeResult on the given profile
ScoreGivenProfile ==
  /\ pc = "profile"
  /\ Publish(ScoreProfile(profile))
  /\ UNCHANGED <<questions, answers>>
  /\ UNCHANGED svcVars
  /\ UNCHANGED memVars

NextProfile == ScoreGivenProfile

SpecProfile == InitProfile /\ [][NextProfile]_vars

(* ------------- NormalizeAndRank on a directly given score list ---------- *)
\* scores: negative, zero, a third, just below the top, the top
ScoreValues == {-(ScoreScale \div 4), 0, ScoreScale \div 3, (ScoreScale \div 20) * 19, ScoreScale}

ScoreLists ==
  UNION { [0 .. (n - 1) -> ScoreValues] : n \in 0 .. NumCareers }

InitRank ==
  /\ questions = <<>>
  /\ answers = <<>>
  /\ pc = "scores"
  /\ profile = ZeroProfile
  /\ \E l \in ScoreLists : adjusted = [i \in DOMAIN l |-> [Career |-> i, Score |-> l[i]]]
  /\ NoOutput
  /\ NoService
  /\ NoCalls

RankScores ==
  /\ pc = "scores"
  /\ ranked' = NormalizeAndRank(adjusted)
  /\ pc' = "done"
  /\ UNCHANGED <<questions, answers, profile, rawScores, risk, adjusted, applied, result, err>>
  /\ UNCHANGED svcVars
  /\ UNCHANGED memVars

NextRank == RankScores

SpecRank == InitRank /\ [][NextRank]_vars

(* ------ the return of ComputeResult on a directly given score list ------ *)
\* adjusted scores: negative, zero, positive
ReturnValues == {-(ScoreScale \div 4), 0, ScoreScale}

ReturnLists ==
  UNION { [0 .. (n - 1) -> ReturnValues] : n \in 0 .. NumCareers }

InitReturn ==
  /\ questions = <<>>
  /\ answers = <<>>
  /\ pc = "ranking"
  /\ profile = ZeroProfile
  /\ \E l \in ReturnLists : adjusted = [i \in DOMAIN l |-> [Career |-> i, Score |-> l[i]]]
  /\ NoOutput
  /\ NoService
  /\ NoCalls

\* steps 5-9 of ComputeResult on the given adjusted scores: rank, fail on an
\* empty ranking, build the DTO
ReturnRanked ==
  /\ pc = "ranking"
  /\ Publish([profile   |-> profile,
              rawScores |-> adjusted,
              risk      |-> ComputeRisk(profile),
              adjusted  |-> adjusted,
              applied   |-> <<>>,
              ranked    |-> NormalizeAndRank(adjusted)])
  /\ UNCHANGED <<questions, answers>>
  /\ UNCHANGED svcVars
  /\ UNCHANGED memVars

NextReturn == ReturnRanked

SpecReturn == InitReturn /\ [][NextReturn]_vars

(* ------- penalties, ranking and explanations on a given score list ------ *)
\* profiles on which no rule fires, every rule fires, and only the rules on
\* financial pressure fire
ExplainProfiles ==
  { GridProfile(0, 0, 0, 0, <<10, 10>>),
    GridProfile(100, 100, 100, 100, <<90, 95>>),
    GridProfile(71, 60, 80, 30, <<90, 95>>) }

InitExplain ==
  /\ questions = <<>>
  /\ answers = <<>>
  /\ pc = "penalties"
  /\ profile \in ExplainProfiles
  /\ \E l \in ReturnLists : adjusted = [i \in DOMAIN l |-> [Career |-> i, Score |-> l[i]]]
  /\ NoOutput
  /\ NoService
  /\ NoCalls

\* steps 4, 5 and 7 of ComputeResult on the given scores: ApplyRiskPenalties,
\* NormalizeAndRank, GenerateTop3Explanations
ExplainRanked ==
  /\ pc = "penalties"
  /\ LET pen == ApplyRiskPenalties(adjusted, profile)
         rnk == NormalizeAndRank(pen.adjusted)
     IN /\ rawScores' = adjusted
        /\ adjusted' = pen.adjusted
        /\ applied' = pen.applied
        /\ ranked' = rnk
        /\ result' = GenerateTop3Explanations(rnk.Rankings, profile, pen.applied)
  /\ pc' = "done"
  /\ UNCHANGED <<questions, answers, profile, risk, err>>
  /\ UNCHANGED svcVars
  /\ UNCHANGED memVars

NextExplain == ExplainRanked

SpecExplain == InitExplain /\ [][NextExplain]_vars

(* ------------- AggregateProfile on float64, by answer order ------------ *)
\* three answers: the shortest list whose float64 sums can depend on the order
PermutedAnswers == 3

\* the first three questions of the assessment
Float64Catalog == << Question(1, 1), Question(2, 2), Question(3, 3) >>

Float64Submissions ==
  [1 .. PermutedAnswers -> [QuestionID : 1 .. 3, Selected : 0 .. MaxOption]]

\* profile holds the nine float64 features as grid numbers
InitFloat64 ==
  /\ questions = Float64Catalog
  /\ answers \in Float64Submissions
  /\ pc = "float64"
  /\ profile = [i \in Features |-> Zero64]
  /\ adjusted = <<>>
  /\ NoOutput
  /\ NoService
  /\ NoCalls

\* step 1 of ComputeResult: profile := AggregateProfile(answers, questions)
AggregateFloat64 ==
  /\ pc = "float64"
  /\ profile' = AggregateProfile64(answers, questions)
  /\ pc' = "done"
  /\ UNCHANGED <<questions, answers, rawScores, risk, adjusted, applied, ranked, result, err>>
  /\ UNCHANGED svcVars
  /\ UNCHANGED memVars

NextFloat64 == AggregateFloat64

SpecFloat64 == InitFloat64 /\ [][NextFloat64]_vars

(* --------------------------- llm_service.go ---------------------------- *)
\* Config.IsLLMEnabled
IsEnabled(c) == c.LLMProvider # "" /\ c.LLMApiKey # ""

\* strings.ToLower on the provider names of Configs
ToLower(s) == IF s = "Claude" THEN "claude" ELSE s

\* the empty string
NoText == [Kind |-> "empty"]

\* a non-empty text written by the provider
GeneratedText == [Kind |-> "generated"]

\* what one HTTP call to the provider does: answers with a text, answers with
\* an empty text, fails, or runs into the client's timeout
CallOutcomes == {"text", "empty", "error", "timeout"}

\* callGroq: (text, err)
callGroq(outcome) ==
  CASE outcome = "text" -> [Text |-> GeneratedText, Err |-> ""]
    [] outcome = "empty" -> [Text |-> NoText, Err |-> ""]
    [] outcome = "timeout" -> [Text |-> NoText, Err |-> "groq API call failed"]
    [] OTHER -> [Text |-> NoText, Err |-> "groq API returned status"]

\* callClaude: (text, err)
callClaude(outcome) ==
  CASE outcome = "text" -> [Text |-> GeneratedText, Err |-> ""]
    [] outcome = "empty" -> [Text |-> NoText, Err |-> ""]
    [] outcome = "timeout" -> [Text |-> NoText, Err |-> "claude API call failed"]
    [] OTHER -> [Text |-> NoText, Err |-> "no response from claude"]

getRiskExplanation(level) ==
  CASE level = "Low" -> "you have a stable foundation"
    [] level = "Medium" -> "you should balance ambition with pragmatism"
    [] level = "High" -> "financial or family pressures require careful planning"
    [] OTHER -> "consider consulting a career counselor"

\* a template text: its topic and the values formatted into it (%.0f of the
\* percentage, %.1f of the risk score, in tenths)
TemplateText(topic, career, percent, level, score, explanation) ==
  [Kind |-> "template", Topic |-> topic, Career |-> career, Percent |-> percent,
   RiskLevel |-> level, RiskScore |-> score, RiskText |-> explanation]

generateTemplateExplanation(res) ==
  TemplateText("analysis", res.BestCareerPath, FormatWhole(res.Scores[0].Percentage, 100),
               res.Risk.Level, FormatWhole(res.Risk.Score, 10), getRiskExplanation(res.Risk.Level))

\* the provider is one the service has a client for
CallsProvider(c) == IsEnabled(c) /\ ToLower(c.LLMProvider) \in {"groq", "claude"}

\* LLMService.GenerateExplanation: (text, err)
LLMGenerateExplanation(c, res, outcome) ==
  IF ~IsEnabled(c) THEN [Text |-> generateTemplateExplanation(res), Err |-> ""]
  ELSE IF ToLower(c.LLMProvider) = "groq" THEN callGroq(outcome)
  ELSE IF ToLower(c.LLMProvider) = "claude" THEN callClaude(outcome)
  ELSE [Text |-> generateTemplateExplanation(res), Err |-> ""]

\* strings.Contains(lowerMsg, word): a message is the set of the keywords in it
Contains(message, word) == word \in message

generateTemplateChatResponse(message, res) ==
  LET career  == res.BestCareerPath
      percent == FormatWhole(res.Scores[0].Percentage, 100)
  IN IF Contains(message, "exam") \/ Contains(message, "prepare")
       THEN TemplateText("exams", career, percent, "", 0, "")
     ELSE IF Contains(message, "salary") \/ Contains(message, "earning")
               \/ Contains(message, "pay") \/ Contains(message, "money")
       THEN TemplateText("salary", career, 0, "", 0, "")
     ELSE IF Contains(message, "college") \/ Contains(message, "university")
               \/ Contains(message, "institute")
       THEN TemplateText("colleges", career, 0, "", 0, "")
     ELSE IF Contains(message, "risk") \/ Contains(message, "safe")
       THEN TemplateText("risk", "", 0, res.Risk.Level, FormatWhole(res.Risk.Score, 10),
                         getRiskExplanation(res.Risk.Level))
     ELSE IF Contains(message, "skill") \/ Contains(message, "learn")
       THEN TemplateText("skills", career, 0, "", 0, "")
     ELSE IF Contains(message, "start") \/ Contains(message, "begin")
               \/ Contains(message, "next step") \/ Contains(message, "today")
       THEN TemplateText("start", career, 0, "", 0, "")
     ELSE TemplateText("default", career, percent, "", 0, "")

\* LLMService.Chat: (reply, err)
LLMChat(c, message, res, outcome) ==
  IF ~IsEnabled(c) THEN [Text |-> generateTemplateChatResponse(message, res), Err |-> ""]
  ELSE IF ToLower(c.LLMProvider) \notin {"groq", "claude"}
    THEN [Text |-> generateTemplateChatResponse(message, res), Err |-> ""]
  ELSE LET r == IF ToLower(c.LLMProvider) = "groq" THEN callGroq(outcome) ELSE callClaude(outcome)
       IN IF r.Err # ""
            THEN [Text |-> generateTemplateChatResponse(message, res), Err |-> ""]
            ELSE [Text |-> r.Text, Err |-> ""]

(* ----------------------- the assessment service ------------------------ *)
Users == {1, 2}

\* the IDs a request may name: none (0), the first row, a row that does not exist
AssessmentIDs == 0 .. 2

Configs ==
  { NoConfig,
    [LLMProvider |-> "groq", LLMApiKey |-> ""],
    [LLMProvider |-> "groq", LLMApiKey |-> "key"],
    [LLMProvider |-> "Claude", LLMApiKey |-> "key"],
    [LLMProvider |-> "openai", LLMApiKey |-> "key"] }

StoredQuestion(id, order, weightsOK) == [ID |-> id, DisplayOrder |-> order, WeightsOK |-> weightsOK]

\* the active questions as FindAllActive returns them, by display order; one
\* table has a display order outside the feature map, one a row whose weights
\* column does not parse
QuestionTables ==
  { << StoredQuestion(1, 9, TRUE), StoredQuestion(2, 15, TRUE), StoredQuestion(3, 31, TRUE) >>,
    << StoredQuestion(4, 2, TRUE), StoredQuestion(2, 11, FALSE), StoredQuestion(1, 12, TRUE) >> }

\* lines 45-57: rows whose weights do not parse are left out
QuestionDataOf(rows) ==
  LET kept == SelectSeq(rows, LAMBDA q : q.WeightsOK)
  IN [i \in 1 .. Len(kept) |-> Question(kept[i].ID, kept[i].DisplayOrder)]

Answer(q, o) == [QuestionID |-> q, Selected |-> o]

\* request bodies: no answer, one answer, an answer to an unknown question
\* ahead of a known one, an answer to a question outside the feature map
Submissions ==
  { <<>>, << Answer(1, 2) >>, << Answer(4, 2), Answer(2, 3) >>, << Answer(3, 2) >> }

\* chat messages, as the sets of the keywords they contain
Messages == { {}, {"exam"}, {"salary", "risk"}, {"university"}, {"safe"}, {"learn", "today"}, {"begin"} }

\* dto.AssessmentResult: the engine's result with its AIExplanation field
AssessmentResult(r, ai) ==
  [Scores |-> r.Scores, BestCareerPath |-> r.BestCareerPath, Confidence |-> r.Confidence,
   IsMultiFit |-> r.IsMultiFit, Risk |-> r.Risk, Explanations |-> r.Explanations,
   Profile |-> r.Profile, AIExplanation |-> ai]

\* json.Marshal(result): ai_explanation is omitempty
MarshalResult(r) ==
  IF r.AIExplanation = NoText
    THEN [Scores |-> r.Scores, BestCareerPath |-> r.BestCareerPath, Confidence |-> r.Confidence,
          IsMultiFit |-> r.IsMultiFit, Risk |-> r.Risk, Explanations |-> r.Explanations,
          Profile |-> r.Profile]
    ELSE r

\* json.Unmarshal into a zero dto.AssessmentResult
UnmarshalResult(j) ==
  IF "AIExplanation" \in DOMAIN j THEN j ELSE AssessmentResult(j, NoText)

\* the LLM's error handed back to the caller
SubmitErrorWithLLM(fetch, engineErr, gen, store) ==
  IF fetch = "error" THEN "failed to fetch questions"
  ELSE IF engineErr # "" THEN "scoring engine error"
  ELSE IF gen.Err # "" THEN "failed to generate explanation"
  ELSE IF store = "error" THEN "failed to store assessment"
  ELSE ""

\* the error SubmitAssessment returns, "" for nil: lines 40-42, 61-63, 86-88
SubmitError(fetch, engineErr, gen, store) ==
  IF fetch = "error" THEN "failed to fetch questions"
  ELSE IF engineErr # "" THEN "scoring engine error"
  ELSE IF store = "error" THEN "failed to store assessment"
  ELSE ""

\* lines 66-71: the optional LLM explanation
EnhanceResult(c, r, outcome) ==
  IF IsEnabled(c)
    THEN LET gen == LLMGenerateExplanation(c, r, outcome)
         IN IF gen.Err = "" /\ gen.Text # NoText
              THEN AssessmentResult(r, gen.Text)
              ELSE AssessmentResult(r, NoText)
    ELSE AssessmentResult(r, NoText)

\* AssessmentRepository.FindByID: the row, or nil
FindByID(id) == IF id \in 1 .. Len(assessments) THEN assessments[id] ELSE <<>>

Failure(e) == [Err |-> e, Body |-> <<>>]

InitService ==
  /\ questions \in QuestionTables
  /\ answers = <<>>
  /\ pc = "request"
  /\ profile = ZeroProfile
  /\ adjusted = <<>>
  /\ NoOutput
  /\ cfg \in Configs
  /\ assessments = <<>>
  /\ call = NoCall
  /\ response = NoResponse
  /\ NoCalls

\* AssessmentService.SubmitAssessment(userID, req); fetch, outcome and store
\* are what the question table, the LLM provider and the assessment table do
SubmitAssessment ==
  /\ pc = "request"
  /\ \E userID \in Users, req \in Submissions, fetch \in {"ok", "error"},
        outcome \in CallOutcomes, store \in {"ok", "error"} :
       LET st        == ScoreProfile(AggregateProfile(req, QuestionDataOf(questions)))
           engineErr == ResultError(st)
           scored    == fetch = "ok" /\ engineErr = ""
           called    == scored /\ CallsProvider(cfg)
           gen       == IF IsEnabled(cfg)
                          THEN LLMGenerateExplanation(cfg, BuildResult(st), outcome)
                          ELSE [Text |-> NoText, Err |-> ""]
           final     == EnhanceResult(cfg, BuildResult(st), outcome)
           e         == SubmitError(fetch, engineErr, gen, store)
           id        == Len(assessments) + 1
       IN /\ called \/ outcome = "text"
          /\ scored \/ store = "ok"
          /\ answers' = req
          /\ IF fetch = "ok"
               THEN Publish(st)
               ELSE /\ pc' = "done"
                    /\ UNCHANGED <<profile, rawScores, risk, adjusted, applied, ranked, result, err>>
          /\ assessments' = IF e = ""
                              THEN Append(assessments,
                                          [ID |-> id, UserID |-> userID, Answers |-> req,
                                           Result |-> MarshalResult(final)])
                              ELSE assessments
          /\ call' = [Op |-> "SubmitAssessment", UserID |-> userID, AssessmentID |-> 0,
                      Message |-> {}, Fetch |-> fetch,
                      LLM |-> IF called THEN outcome ELSE "none",
                      Store |-> IF scored THEN store ELSE "none"]
          /\ response' = IF e # "" THEN Failure(e)
                         ELSE [Err |-> "", Body |-> [ID |-> id, UserID |-> userID, Result |-> final]]
  /\ UNCHANGED <<questions, cfg>>
  /\ UNCHANGED memVars

\* the row returned to whoever asks for it
GetAssessmentUnchecked ==
  /\ pc = "done"
  /\ pc' = "served"
  /\ \E id \in AssessmentIDs, userID \in Users, find \in {"ok", "error"} :
       LET a == FindByID(id) IN
       /\ call' = [Op |-> "GetAssessment", UserID |-> userID, AssessmentID |-> id,
                   Message |-> {}, Fetch |-> "none", LLM |-> "none", Store |-> find]
       /\ response' = IF find = "error" THEN Failure("failed to find assessment")
                      ELSE IF a = <<>> THEN Failure("assessment not found")
                      ELSE [Err |-> "",
                            Body |-> [ID |-> a.ID, UserID |-> a.UserID,
                                      Result |-> UnmarshalResult(a.Result)]]
  /\ UNCHANGED <<questions, answers, profile, rawScores, risk, adjusted, applied, ranked,
                 result, err, cfg, assessments>>
  /\ UNCHANGED memVars

\* AssessmentService.GetAssessment(id, userID), after the submission; a read
\* leaves the tables as they are, so a run holds one of them
GetAssessment ==
  /\ pc = "done"
  /\ pc' = "served"
  /\ \E id \in AssessmentIDs, userID \in Users, find \in {"ok", "error"} :
       LET a == FindByID(id) IN
       /\ call' = [Op |-> "GetAssessment", UserID |-> userID, AssessmentID |-> id,
                   Message |-> {}, Fetch |-> "none", LLM |-> "none", Store |-> find]
       /\ response' = IF find = "error" THEN Failure("failed to find assessment")
                      ELSE IF a = <<>> THEN Failure("assessment not found")
                      ELSE IF a.UserID # userID THEN Failure("unauthorized access to assessment")
                      ELSE [Err |-> "",
                            Body |-> [ID |-> a.ID, UserID |-> a.UserID,
                                      Result |-> UnmarshalResult(a.Result)]]
  /\ UNCHANGED <<questions, answers, profile, rawScores, risk, adjusted, applied, ranked,
                 result, err, cfg, assessments>>
  /\ UNCHANGED memVars

\* AssessmentService.Chat(userID, req), after the submission
Chat ==
  /\ pc = "done"
  /\ pc' = "served"
  /\ \E userID \in Users, id \in AssessmentIDs, message \in Messages,
        find \in {"ok", "error"}, outcome \in CallOutcomes :
       LET a      == FindByID(id)
           found  == id # 0 /\ find = "ok" /\ a # <<>>
           owned  == found /\ a.UserID = userID
           called == owned /\ CallsProvider(cfg)
           reply  == LLMChat(cfg, message, UnmarshalResult(a.Result), outcome)
       IN /\ called \/ outcome = "text"
          /\ id # 0 \/ find = "ok"
          /\ call' = [Op |-> "Chat", UserID |-> userID, AssessmentID |-> id,
                      Message |-> message, Fetch |-> "none",
                      LLM |-> IF called THEN outcome ELSE "none",
                      Store |-> IF id = 0 THEN "none" ELSE find]
          /\ response' = IF id = 0 THEN Failure("assessment_id is required")
                         ELSE IF find = "error" THEN Failure("failed to fetch assessment")
                         ELSE IF a = <<>> THEN Failure("assessment not found")
                         ELSE IF a.UserID # userID THEN Failure("unauthorized")
                         ELSE [Err |-> reply.Err, Body |-> reply.Text]
  /\ UNCHANGED <<questions, answers, profile, rawScores, risk, adjusted, applied, ranked,
                 result, err, cfg, assessments>>
  /\ UNCHANGED memVars

NextService == SubmitAssessment \/ GetAssessment \/ Chat

SpecService == InitService /\ [][NextService]_vars

(* ------------- SubmitAssessment statement by statement ------------------ *)
\* LLM disabled, and a provider with its key
SubmitConfigs == { NoConfig, [LLMProvider |-> "groq", LLMApiKey |-> "key"] }

\* request bodies: no answer, one answer
SubmitRequests == { <<>>, << Answer(1, 2) >> }

\* the failed fetch not returned: the submission goes on to the engine
AfterFetchUnchecked(fetch) == "score"

\* lines 39-42: return on a failed FindAllActive
AfterFetch(fetch) == IF fetch = "error" THEN "done" ELSE "score"

\* lines 60-63: return on an engine error
AfterScore(engineErr) == IF engineErr # "" THEN "done" ELSE "enhance"

InitSubmit ==
  /\ questions \in QuestionTables
  /\ answers = <<>>
  /\ pc = "request"
  /\ profile = ZeroProfile
  /\ adjusted = <<>>
  /\ NoOutput
  /\ cfg \in SubmitConfigs
  /\ assessments = <<>>
  /\ call = NoCall
  /\ response = NoResponse
  /\ NoCalls

\* a request arrives: SubmitAssessment(userID, req) is entered
BeginSubmit ==
  /\ pc \in {"request", "done"}
  /\ Len(assessments) + 1 \in AssessmentIDs
  /\ \E userID \in Users, req \in SubmitRequests :
       /\ answers' = req
       /\ call' = [NoCall EXCEPT !.Op = "SubmitAssessment", !.UserID = userID]
  /\ response' = NoResponse
  /\ pc' = "fetch"
  /\ profile' = ZeroProfile
  /\ adjusted' = <<>>
  /\ rawScores' = <<>>
  /\ risk' = ZeroRisk
  /\ applied' = <<>>
  /\ ranked' = EmptyRanked
  /\ result' = <<>>
  /\ err' = ""
  /\ UNCHANGED <<questions, cfg, assessments>>
  /\ UNCHANGED memVars

\* lines 39-42: questions, err := s.questionRepo.FindAllActive()
SubmitFetch ==
  /\ pc = "fetch"
  /\ \E fetch \in {"ok", "error"} :
       /\ call' = [call EXCEPT !.Fetch = fetch]
       /\ response' = IF fetch = "error" THEN Failure("failed to fetch questions") ELSE response
       /\ pc' = AfterFetch(fetch)
  /\ UNCHANGED <<questions, answers, profile, rawScores, risk, adjusted, applied, ranked,
                 result, err, cfg, assessments>>
  /\ UNCHANGED memVars

\* lines 44-63: the rows converted, then s.scoringEngine.ComputeResult
SubmitScore ==
  /\ pc = "score"
  /\ LET st == ScoreProfile(AggregateProfile(answers, QuestionDataOf(questions)))
     IN /\ profile' = st.profile
        /\ rawScores' = st.rawScores
        /\ risk' = st.risk
        /\ adjusted' = st.adjusted
        /\ applied' = st.applied
        /\ ranked' = st.ranked
        /\ result' = BuildResult(st)
        /\ err' = ResultError(st)
        /\ response' = IF ResultError(st) # "" THEN Failure("scoring engine error") ELSE response
        /\ pc' = AfterScore(ResultError(st))
  /\ UNCHANGED <<questions, answers, cfg, assessments, call>>
  /\ UNCHANGED memVars

\* lines 65-71: the optional LLM explanation written into the result
SubmitEnhance ==
  /\ pc = "enhance"
  /\ \E outcome \in CallOutcomes :
       /\ CallsProvider(cfg) \/ outcome = "text"
       /\ result' = EnhanceResult(cfg, result, outcome)
       /\ call' = [call EXCEPT !.LLM = IF CallsProvider(cfg) THEN outcome ELSE "skipped"]
  /\ pc' = "store"
  /\ UNCHANGED <<questions, answers, profile, rawScores, risk, adjusted, applied, ranked,
                 err, cfg, assessments, response>>
  /\ UNCHANGED memVars

\* lines 73-96: the result serialised, s.assessmentRepo.Create, the response;
\* Create fails on the INSERT ("error") or on reading the inserted row back
\* ("readback", the row being stored by then)
SubmitStore ==
  /\ pc = "store"
  /\ \E store \in {"ok", "error", "readback"} :
       LET id == Len(assessments) + 1 IN
       /\ call' = [call EXCEPT !.Store = store]
       /\ assessments' = IF store \in {"ok", "readback"}
                           THEN Append(assessments,
                                       [ID |-> id, UserID |-> call.UserID, Answers |-> answers,
                                        Result |-> MarshalResult(result)])
                           ELSE assessments
       /\ response' = IF store = "ok"
                        THEN [Err |-> "", Body |-> [ID |-> id, UserID |-> call.UserID, Result |-> result]]
                        ELSE Failure("failed to store assessment")
  /\ pc' = "done"
  /\ UNCHANGED <<questions, answers, profile, rawScores, risk, adjusted, applied, ranked,
                 result, err, cfg>>
  /\ UNCHANGED memVars

NextSubmit ==
  BeginSubmit \/ SubmitFetch \/ SubmitScore \/ SubmitEnhance \/ SubmitStore
    \/ GetAssessment \/ Chat

SpecSubmit == InitSubmit /\ [][NextSubmit]_vars

(* ------------- ComputeResult called by requests side by side ------------ *)
\* the package-level tables, laid out before everything a call allocates:
\* CareerWeightMatrix, riskPenaltyRules, questionFeatureMap
StaticHeap == << CareerWeightMatrix, riskPenaltyRules, questionFeatureMap >>

StaticAddrs == 1 .. Len(StaticHeap)

RulesAddr == 2

\* one buffer kept at package level and handed out by every allocation
makePooled(h) == Len(StaticHeap) + 1

\* make, new and &T{}: memory no one else holds
make(h) == Len(h) + 1

\* the write of value v at address a
Store(h, a, v) == IF a \in 1 .. Len(h) THEN [h EXCEPT ![a] = v] ELSE Append(h, v)

CallIDs == {1, 2}

\* questions on financial pressure (display order 9) and risk appetite (15)
SharedCatalog == << Question(1, 9), Question(2, 15) >>

\* independent requests: no penalty, six penalties on four careers, the penalty
\* on government jobs
Requests ==
  { << Answer(1, 0) >>,
    << Answer(1, 3) >>,
    << Answer(2, 4), Answer(1, 1) >> }

\* a call that has not run its first statement; 0 is the nil pointer
NewCall(a) ==
  [pc |-> "aggregate", answers |-> a, profile |-> 0, rawScores |-> 0, adjusted |-> 0,
   applied |-> 0, risk |-> ZeroRisk, k |-> 0, result |-> <<>>, err |-> ""]

InitConcurrent ==
  /\ questions = SharedCatalog
  /\ answers = <<>>
  /\ pc = "concurrent"
  /\ profile = ZeroProfile
  /\ adjusted = <<>>
  /\ NoOutput
  /\ NoService
  /\ calls \in [CallIDs -> {NewCall(a) : a \in Requests}]
  /\ heap = StaticHeap

IdleEngine ==
  UNCHANGED <<questions, answers, pc, profile, rawScores, risk, adjusted, applied, ranked,
              result, err>>

\* step 1: profile := AggregateProfile(answers, questionsJSON)
CallAggregate ==
  /\ pc = "concurrent"
  /\ \E i \in CallIDs :
       /\ calls[i].pc = "aggregate"
       /\ LET a == make(heap)
          IN /\ heap' = Store(heap, a, AggregateProfile(calls[i].answers, questions))
             /\ calls' = [calls EXCEPT ![i].pc = "score", ![i].profile = a]
  /\ IdleEngine
  /\ UNCHANGED svcVars

\* step 2: rawScores := ComputeRawScores(profile)
CallScore ==
  /\ pc = "concurrent"
  /\ \E i \in CallIDs :
       /\ calls[i].pc = "score"
       /\ LET a == make(heap)
          IN /\ heap' = Store(heap, a, ComputeRawScores(heap[calls[i].profile]))
             /\ calls' = [calls EXCEPT ![i].pc = "risk", ![i].rawScores = a]
  /\ IdleEngine
  /\ UNCHANGED svcVars

\* step 3: riskResult := ComputeRisk(profile)
CallRisk ==
  /\ pc = "concurrent"
  /\ \E i \in CallIDs :
       /\ calls[i].pc = "risk"
       /\ calls' = [calls EXCEPT ![i].pc = "penalties",
                                 ![i].risk = ComputeRisk(heap[calls[i].profile])]
  /\ UNCHANGED heap
  /\ IdleEngine
  /\ UNCHANGED svcVars

\* adjusted := scores: the caller's slice used in place, without the copy
CallAliasScores ==
  /\ pc = "concurrent"
  /\ \E i \in CallIDs :
       /\ calls[i].pc = "penalties"
       /\ LET m == make(heap)
          IN /\ heap' = Store(heap, m, <<>>)
             /\ calls' = [calls EXCEPT ![i].pc = "rules", ![i].adjusted = calls[i].rawScores,
                                       ![i].applied = m, ![i].k = 1]
  /\ IdleEngine
  /\ UNCHANGED svcVars

\* step 4, risk.go 144-146: adjusted := make(...); copy(adjusted, scores);
\* appliedPenalties := make(map)
CallCopyScores ==
  /\ pc = "concurrent"
  /\ \E i \in CallIDs :
       /\ calls[i].pc = "penalties"
       /\ LET a  == make(heap)
              h  == Store(heap, a, heap[calls[i].rawScores])
              m  == make(h)
          IN /\ heap' = Store(h, m, <<>>)
             /\ calls' = [calls EXCEPT ![i].pc = "rules", ![i].adjusted = a,
                                       ![i].applied = m, ![i].k = 1]
  /\ IdleEngine
  /\ UNCHANGED svcVars

\* step 4, risk.go 148-159: one turn of the loop over riskPenaltyRules
CallApplyRule ==
  /\ pc = "concurrent"
  /\ \E i \in CallIDs :
       /\ calls[i].pc = "rules"
       /\ calls[i].k <= Len(heap[RulesAddr])
       /\ LET rule == heap[RulesAddr][calls[i].k]
              idx  == rule.Career
              adj  == heap[calls[i].adjusted]
          IN IF Condition(rule, heap[calls[i].profile]) /\ idx < Cardinality(DOMAIN adj)
               THEN heap' = [heap EXCEPT
                      ![calls[i].adjusted] = [adj EXCEPT ![idx].Score = PenalisedScore(@, rule.Penalty)],
                      ![calls[i].applied] = AppendPenalty(@, rule.Career,
                                              [Penalty |-> rule.Penalty, Reason |-> rule.Reason])]
               ELSE UNCHANGED heap
       /\ calls' = [calls EXCEPT ![i].k = @ + 1]
  /\ IdleEngine
  /\ UNCHANGED svcVars

\* steps 5-9 after the loop: NormalizeAndRank, the error or the DTO
CallRank ==
  /\ pc = "concurrent"
  /\ \E i \in CallIDs :
       /\ calls[i].pc = "rules"
       /\ calls[i].k > Len(heap[RulesAddr])
       /\ LET st == [profile   |-> heap[calls[i].profile],
                     rawScores |-> heap[calls[i].rawScores],
                     risk      |-> calls[i].risk,
                     adjusted  |-> heap[calls[i].adjusted],
                     applied   |-> heap[calls[i].applied],
                     ranked    |-> NormalizeAndRank(heap[calls[i].adjusted])]
          IN calls' = [calls EXCEPT ![i].pc = "done", ![i].result = BuildResult(st),
                                    ![i].err = ResultError(st)]
  /\ UNCHANGED heap
  /\ IdleEngine
  /\ UNCHANGED svcVars

NextConcurrent ==
  CallAggregate \/ CallScore \/ CallRisk \/ CallCopyScores \/ CallApplyRule \/ CallRank

SpecConcurrent == InitConcurrent /\ [][NextConcurrent]_vars

(* ------------------------------ properties ----------------------------- *)
\* C2: for every answers list and catalog (duplicate answers, unknown question
\* IDs and unmapped options included) every one of the 9 features of the
\* profile returned by AggregateProfile lies in [0,1].
ProfileBounds ==
  pc = "done" => \A i \in Features : profile[i] >= 0 /\ profile[i] <= FScale

\* the same answer given twice, one feature at the upper end of the interval
ProfileBoundsWitness ==
  /\ pc = "done"
  /\ Len(answers) >= 2
  /\ answers[1] = answers[2]
  /\ \E i \in Features : profile[i] = FScale

AllEqual(scores) == \A i, j \in DOMAIN scores : scores[i].Score = scores[j].Score

\* C3: for adjusted scores that are not all equal, NormalizeAndRank gives every
\* career a Percentage in [0,100] and the career ranked first has Percentage 100.
NormalizationBounds ==
  (pc = "done" /\ ~AllEqual(adjusted)) =>
    /\ \A i \in DOMAIN ranked.Rankings :
         ranked.Rankings[i].Percentage >= 0 /\ ranked.Rankings[i].Percentage <= 10000
    /\ ranked.Rankings[0].Percentage = 10000

\* the raw dot product of career c, in 1/(FScale*100)
RawDot(c) == rawScores[c].Score \div PenaltyScale

\* profile feature f > t/100
Exceeds(f, t) == profile[f] * 100 > t * FScale

\* C4: when two penalty rules target the same career and both predicates hold,
\* the adjusted score is original * (1-p1) * (1-p2), not original * (1-(p1+p2));
\* Startup with FinancialPressure > 0.6 and IncomeUrgency > 0.7 gets
\* original * 0.80 * 0.85.
PenaltyCompounding ==
  pc = "done" =>
    /\ \A k1, k2 \in 1 .. Len(riskPenaltyRules) :
         ( /\ k1 < k2
           /\ riskPenaltyRules[k1].Career = riskPenaltyRules[k2].Career
           /\ riskPenaltyRules[k1].Career < NumCareers
           /\ Exceeds(riskPenaltyRules[k1].Feature, riskPenaltyRules[k1].Threshold)
           /\ Exceeds(riskPenaltyRules[k2].Feature, riskPenaltyRules[k2].Threshold) )
         => LET c  == riskPenaltyRules[k1].Career
                p1 == riskPenaltyRules[k1].Penalty
                p2 == riskPenaltyRules[k2].Penalty
            IN /\ adjusted[c].Score * 25 = RawDot(c) * (100 - p1) * (100 - p2)
               /\ rawScores[c].Score # 0 =>
                    adjusted[c].Score * 25 # RawDot(c) * 100 * (100 - (p1 + p2))
    /\ (Exceeds(FeatFinancialPressure, 60) /\ Exceeds(FeatIncomeUrgency, 70))
         => adjusted[CareerStartup].Score * 25 = RawDot(CareerStartup) * 80 * 85

\* both Startup rules fired on a non-zero Startup score
PenaltyCompoundingWitness ==
  /\ pc = "done"
  /\ Exceeds(FeatFinancialPressure, 60)
  /\ Exceeds(FeatIncomeUrgency, 70)
  /\ rawScores[CareerStartup].Score # 0
  /\ CareerStartup \in DOMAIN applied
  /\ Len(applied[CareerStartup]) = 2

Fired(b, p) == IF b THEN <<p>> ELSE <<>>

\* the penalties the contract lists for career c, in percent
ExpectedPenalties(c) ==
  CASE c = CareerStartup ->
         Fired(Exceeds(FeatFinancialPressure, 60), 20) \o Fired(Exceeds(FeatIncomeUrgency, 70), 15)
    [] c = CareerMSAbroad ->
         Fired(Exceeds(FeatFinancialPressure, 65), 15) \o Fired(Exceeds(FeatIncomeUrgency, 60), 10)
    [] c = CareerHigherStudies -> Fired(Exceeds(FeatIncomeUrgency, 65), 25)
    [] c = CareerMBA -> Fired(Exceeds(FeatFinancialPressure, 70), 15)
    [] c = CareerGovt -> Fired(Exceeds(FeatRiskTolerance, 80), 10)
    [] OTHER -> <<>>

\* the product of the multipliers (1-p), in 1/10000
Multiplier(ps) ==
  CASE Len(ps) = 0 -> 100 * 100
    [] Len(ps) = 1 -> (100 - ps[1]) * 100
    [] OTHER -> (100 - ps[1]) * (100 - ps[2])

AppliedTo(c) ==
  IF c \in DOMAIN applied
    THEN [k \in 1 .. Len(applied[c]) |-> applied[c][k].Penalty]
    ELSE <<>>

\* C5: the rules fire on exactly the listed strict thresholds and no others:
\* Startup x0.80 iff FP>0.6, x0.85 iff IU>0.7; MS Abroad x0.85 iff FP>0.65,
\* x0.90 iff IU>0.6; Higher Studies x0.75 iff IU>0.65; MBA x0.85 iff FP>0.7;
\* Government x0.90 iff RT>0.8; a value equal to its threshold triggers nothing
\* and IT/Software is never penalised.
PenaltyThresholds ==
  pc = "done" =>
    /\ \A c \in 0 .. (NumCareers - 1) :
         /\ AppliedTo(c) = ExpectedPenalties(c)
         /\ adjusted[c].Score * 25 = RawDot(c) * Multiplier(ExpectedPenalties(c))
    /\ CareerIT \notin DOMAIN applied
    /\ adjusted[CareerIT].Score = rawScores[CareerIT].Score

\* every risk feature exactly on a threshold: only the rules with a lower
\* threshold on income urgency fire
PenaltyThresholdsWitness ==
  /\ pc = "done"
  /\ profile[FeatFinancialPressure] * 100 = 60 * FScale
  /\ profile[FeatIncomeUrgency] * 100 = 70 * FScale
  /\ profile[FeatRiskTolerance] * 100 = 80 * FScale
  /\ DOMAIN applied = {CareerHigherStudies, CareerMSAbroad}

\* C6: a fired penalty is a score reduction: for every profile reachable from
\* answers and every career with a fired rule, the adjusted score is not
\* greater than the raw score, and strictly less when the raw score is non-zero.
PenaltyReducesScore ==
  pc = "done" =>
    \A c \in DOMAIN applied :
      /\ adjusted[c].Score <= rawScores[c].Score
      /\ rawScores[c].Score # 0 => adjusted[c].Score < rawScores[c].Score

\* 35 IU + 25 FP + 20 RT + 20 CI, in 1/(FScale*100)
WeightedRisk ==
  35 * profile[FeatIncomeUrgency] + 25 * profile[FeatFinancialPressure]
    + 20 * profile[FeatRiskTolerance] + 20 * profile[FeatCareerInstability]

\* v hundredths is x/FScale times ten, to 2 decimals
IsTenTimes(v, x) == 2 * Abs(v * FScale - 1000 * x) <= FScale

\* C7: ComputeRisk returns Score = 10 * (0.35 IU + 0.25 FP + 0.20 RT + 0.20 CI)
\* to 2 decimals, a function of these four features only; the four Factors
\* are the features times 10 (to 2 decimals); the Score lies in [0,10].
RiskFormula ==
  pc = "done" =>
    /\ 2 * Abs(risk.Score * FScale - 10 * WeightedRisk) <= FScale
    /\ risk.Score >= 0 /\ risk.Score <= 1000
    /\ DOMAIN risk.Factors = {"income_urgency", "financial_pressure", "risk_tolerance", "career_instability"}
    /\ IsTenTimes(risk.Factors.income_urgency, profile[FeatIncomeUrgency])
    /\ IsTenTimes(risk.Factors.financial_pressure, profile[FeatFinancialPressure])
    /\ IsTenTimes(risk.Factors.risk_tolerance, profile[FeatRiskTolerance])
    /\ IsTenTimes(risk.Factors.career_instability, profile[FeatCareerInstability])

\* income urgency and financial pressure differ, so their coefficients matter
RiskFormulaWitness ==
  /\ pc = "done"
  /\ profile[FeatIncomeUrgency] = 100 * CountLcm
  /\ profile[FeatFinancialPressure] = 0
  /\ profile[FeatRiskTolerance] = 30 * CountLcm
  /\ profile[FeatCareerInstability] = 60 * CountLcm
  /\ risk.Score = 530

\* C8: Level is "High" exactly when Score > 6, "Medium" exactly when
\* 3 < Score <= 6, and "Low" otherwise.
RiskLevels ==
  pc = "done" =>
    /\ risk.Level = "High" <=> risk.Score > 600
    /\ risk.Level = "Medium" <=> (risk.Score > 300 /\ risk.Score <= 600)
    /\ risk.Level = "Low" <=> risk.Score <= 300

\* a score just above 6 classified High
RiskLevelsWitness ==
  /\ pc = "done"
  /\ risk.Score > 600
  /\ risk.Score <= 610
  /\ risk.Level = "High"

\* C9 as stated: a RiskScore of exactly 3.0 is "Medium" and a RiskScore of
\* exactly 6.0 is "Medium".
RiskBoundariesMedium ==
  pc = "done" =>
    /\ risk.Score = 300 => risk.Level = "Medium"
    /\ risk.Score = 600 => risk.Level = "Medium"

\* C9 amended: a RiskScore of exactly 3.0 is "Low" (the comparison is the strict
\* Score > 3) and a RiskScore of exactly 6.0 is "Medium" (not "High").
RiskBoundaries ==
  pc = "done" =>
    /\ risk.Score = 300 => risk.Level = "Low"
    /\ risk.Score = 600 => risk.Level = "Medium"

\* a score of exactly 3.0
RiskBoundariesWitness ==
  /\ pc = "done"
  /\ risk.Score = 300
  /\ risk.Level = "Low"

\* Confidence is (Top - Second) / Top over the first two ranked entries,
\* 0 with fewer than 2 careers or Top = 0, lies in [0,1], and IsMultiFit
\* is Confidence < 0.1
ConfidenceContract ==
  LET r == ranked.Rankings
      n == Cardinality(DOMAIN r)
  IN /\ ranked.Confidence >= 0 /\ ranked.Confidence <= 1000
     /\ IF n >= 2 /\ r[0].Normalized > 0
          THEN ranked.Confidence * r[0].Normalized = 1000 * (r[0].Normalized - r[1].Normalized)
          ELSE ranked.Confidence = 0
     /\ ranked.IsMultiFit <=> ranked.Confidence < 100

TopTied(scores) ==
  \E i, j \in DOMAIN scores :
    /\ i # j
    /\ scores[i].Score = scores[j].Score
    /\ \A k \in DOMAIN scores : scores[k].Score <= scores[i].Score

\* C11: when the two highest penalty-adjusted scores are equal (all scores
\* equal included), NormalizeAndRank returns Confidence = 0 and IsMultiFit = true.
TopTie ==
  (pc = "done" /\ TopTied(adjusted)) =>
    /\ ranked.Confidence = 0
    /\ ranked.IsMultiFit

\* two careers share the top at 100% above a third one
TopTieWitness ==
  /\ pc = "done"
  /\ TopTied(adjusted)
  /\ ~AllEqual(adjusted)
  /\ ranked.Rankings[0].Percentage = 10000
  /\ ranked.Rankings[1].Percentage = 10000
  /\ ranked.Confidence = 0
  /\ ranked.IsMultiFit

\* exactly one entry of the list is non-zero, and there are at least two entries
OneNonZero(scores) ==
  /\ Cardinality(DOMAIN scores) >= 2
  /\ Cardinality({i \in DOMAIN scores : scores[i].Score # 0}) = 1

\* the non-zero entry of such a list
TheNonZero(scores) == (CHOOSE i \in DOMAIN scores : scores[i].Score # 0)

\* C12 as stated: with exactly one non-zero adjusted score and every other
\* score zero (at least two careers), Confidence = 1.0 and IsMultiFit = false.
SoleScoreConfident ==
  (pc = "done" /\ OneNonZero(adjusted)) =>
    /\ ranked.Confidence = 1000
    /\ ~ranked.IsMultiFit

\* C12 amended: with exactly one non-zero adjusted score and every other score
\* zero (at least two careers), Confidence = 1.0 and IsMultiFit = false when the
\* non-zero score is positive or there are exactly two careers; when it is
\* negative and there are three or more careers, the zero scores tie at the
\* top and Confidence = 0 with IsMultiFit = true.
SoleScoreConfidence ==
  (pc = "done" /\ OneNonZero(adjusted)) =>
    IF adjusted[TheNonZero(adjusted)].Score > 0 \/ Cardinality(DOMAIN adjusted) = 2
      THEN ranked.Confidence = 1000 /\ ~ranked.IsMultiFit
      ELSE ranked.Confidence = 0 /\ ranked.IsMultiFit

\* one positive score, not listed first, among three or more careers
SoleScoreConfidenceWitness ==
  /\ pc = "done"
  /\ OneNonZero(adjusted)
  /\ Cardinality(DOMAIN adjusted) >= 3
  /\ adjusted[0].Score = 0
  /\ adjusted[TheNonZero(adjusted)].Score > 0
  /\ ranked.Rankings[0].Career = TheNonZero(adjusted)
  /\ ranked.Confidence = 1000

\* C13: the ranking is a stable sort: it is in descending order of Normalized
\* and whenever two careers have equal Normalized values they appear in their
\* Career enum order, for every score list of the pipeline (up to NumCareers
\* entries in enum order).
RankingStable ==
  pc = "done" =>
    \A i, j \in DOMAIN ranked.Rankings :
      i < j =>
        /\ ranked.Rankings[i].Normalized >= ranked.Rankings[j].Normalized
        /\ ranked.Rankings[i].Normalized = ranked.Rankings[j].Normalized
             => ranked.Rankings[i].Career < ranked.Rankings[j].Career

\* two tied careers moved past a lower one that was listed between them
RankingStableWitness ==
  /\ pc = "done"
  /\ \E i, j, k \in DOMAIN adjusted :
       /\ i < k /\ k < j
       /\ adjusted[i].Score = adjusted[j].Score
       /\ adjusted[k].Score < adjusted[i].Score
  /\ \E i \in DOMAIN ranked.Rankings :
       /\ i + 1 \in DOMAIN ranked.Rankings
       /\ ranked.Rankings[i].Normalized = ranked.Rankings[i + 1].Normalized
       /\ ranked.Rankings[i].Career + 1 < ranked.Rankings[i + 1].Career

\* answer a is one the aggregation loop skips: no catalog question has its ID,
\* or the first such question's display order, or the selected option under
\* that display order, is not in the question-feature map
Skipped(a, qs) ==
  LET hits == {i \in 1 .. Len(qs) : qs[i].ID = a.QuestionID} IN
  \/ hits = {}
  \/ LET q == qs[CHOOSE i \in hits : \A k \in hits : i <= k] IN
       \/ q.DisplayOrder \notin DOMAIN questionFeatureMap
       \/ a.Selected \notin DOMAIN questionFeatureMap[q.DisplayOrder]

\* the list s without its k-th element
RemoveAt(s, k) == SubSeq(s, 1, k - 1) \o SubSeq(s, k + 1, Len(s))

\* C14: a skipped answer (question ID absent from the catalog, or (DisplayOrder,
\* option) pair absent from the question-feature map) has no effect: the profile
\* of the answers list equals, in all 9 features, the profile of the list
\* without that answer, and no error is raised.
SkippedAnswerNoEffect ==
  pc = "done" =>
    /\ err = ""
    /\ \A k \in 1 .. Len(answers) :
         Skipped(answers[k], questions) =>
           profile = AggregateProfile(RemoveAt(answers, k), questions)

\* a skipped answer ahead of one that contributes to the profile
SkippedAnswerNoEffectWitness ==
  /\ pc = "done"
  /\ Len(answers) = 2
  /\ Skipped(answers[1], questions)
  /\ ~Skipped(answers[2], questions)
  /\ profile # ZeroProfile
  /\ profile = AggregateProfile(<<answers[2]>>, questions)

\* C16: ComputeResult returns a complete result and no error for every answers
\* list (empty, all skipped, partial): one score entry per career, a
\* bestCareerPath naming the first entry, a risk block and a profile block.
CompleteResult ==
  pc = "done" =>
    /\ err = ""
    /\ result # <<>>
    /\ DOMAIN result.Scores = 0 .. (NumCareers - 1)
    /\ \A c \in 0 .. (NumCareers - 1) :
         Cardinality({i \in DOMAIN result.Scores : result.Scores[i].Category = careerLabels[c]}) = 1
    /\ result.BestCareerPath = result.Scores[0].Category
    /\ result.Risk.Level \in {"Low", "Medium", "High"}
    /\ result.Risk.Score >= 0 /\ result.Risk.Score <= 1000
    /\ DOMAIN result.Profile = Features
    /\ \A i \in Features : result.Profile[i] >= 0 /\ result.Profile[i] <= 1000

\* a submission whose answers are all skipped: the result of the zero profile
CompleteResultWitness ==
  /\ pc = "done"
  /\ Len(answers) >= 1
  /\ \A k \in 1 .. Len(answers) : Skipped(answers[k], questions)
  /\ profile = ZeroProfile
  /\ result # <<>>
  /\ result.BestCareerPath = careerLabels[CareerIT]

\* C15: when no career score is computed (an empty score list reaches the
\* ranking), ComputeResult returns the error "no career scores computed" and
\* no result; a result is never returned with an empty ranking or with an error.
NoCareersError ==
  pc = "done" =>
    /\ Cardinality(DOMAIN adjusted) = 0 =>
         (err = "no career scores computed" /\ result = <<>>)
    /\ result # <<>> =>
         (err = "" /\ Cardinality(DOMAIN result.Scores) = Cardinality(DOMAIN adjusted)
                   /\ Cardinality(DOMAIN result.Scores) > 0)
    /\ err = "" <=> result # <<>>

\* the call on zero careers has returned its error
NoCareersErrorWitness ==
  /\ pc = "done"
  /\ Cardinality(DOMAIN adjusted) = 0
  /\ ranked = EmptyRanked
  /\ err = "no career scores computed"
  /\ result = <<>>

DeterministicResult == AssessmentResult(result, NoText)

\* the last request was a submission during which the LLM call failed
LLMCallFailed(outcomes) == call.Op = "SubmitAssessment" /\ call.LLM \in outcomes

\* C17: when the LLM step is enabled and its call fails (error, timeout or
\* empty text), SubmitAssessment succeeds whenever the tables do, the result it
\* stores and returns is the result produced with the LLM disabled, and the
\* error it returns is never the LLM's.
LLMFailureHarmless ==
  /\ LLMCallFailed({"error", "timeout", "empty"}) =>
       /\ IsEnabled(cfg)
       /\ response.Err \in {"", "failed to store assessment"}
       /\ call.Store = "ok" =>
            /\ response.Err = ""
            /\ response.Body.Result = DeterministicResult
            /\ response.Body.ID \in 1 .. Len(assessments)
            /\ assessments[response.Body.ID].UserID = call.UserID
            /\ UnmarshalResult(assessments[response.Body.ID].Result) = DeterministicResult
  /\ (call.Op = "SubmitAssessment" /\ ~IsEnabled(cfg) /\ response.Err = "") =>
       /\ response.Body.Result = DeterministicResult
       /\ UnmarshalResult(assessments[response.Body.ID].Result) = DeterministicResult

\* a submission with scored answers stored although the LLM call timed out
LLMFailureHarmlessWitness ==
  /\ LLMCallFailed({"timeout"})
  /\ call.Store = "ok"
  /\ response.Err = ""
  /\ profile # ZeroProfile
  /\ Len(assessments) = 1
  /\ response.Body.Result.AIExplanation = NoText
  /\ response.Body.Result.BestCareerPath = result.BestCareerPath

\* C18: when the text-generation call errors or times out, the deterministic
\* template text is substituted for the generated text: the explanation
\* attached to the submitted assessment is the template explanation, and the
\* chat reply is the template chat response.
TemplateSubstituted ==
  /\ (LLMCallFailed({"error", "timeout"}) /\ response.Err = "") =>
       response.Body.Result.AIExplanation = generateTemplateExplanation(result)
  /\ (call.Op = "Chat" /\ call.LLM \in {"error", "timeout"}) =>
       /\ response.Err = ""
       /\ response.Body = generateTemplateChatResponse(
                            call.Message, UnmarshalResult(assessments[call.AssessmentID].Result))

\* the addresses call i holds
Held(i) == {calls[i].profile, calls[i].rawScores, calls[i].adjusted, calls[i].applied} \ {0}

\* the number of allocations call i has made
Allocated(i) ==
  CASE calls[i].pc = "aggregate" -> 0
    [] calls[i].pc = "score" -> 1
    [] calls[i].pc \in {"risk", "penalties"} -> 2
    [] OTHER -> 4

\* what ComputeResult returns for the answers of call i when it runs alone
Alone(i) ==
  LET st == ScoreProfile(AggregateProfile(calls[i].answers, questions))
  IN [result |-> BuildResult(st), err |-> ResultError(st)]

\* C20: ComputeResult calls on independent requests do not interfere. Under
\* every interleaving of their steps the three shared tables (weight matrix,
\* penalty rules, question-feature map) keep their contents, the profile,
\* the score lists and the penalty map of a call are memory of that call
\* alone (fresh, outside the tables, held by no other call), and a finished
\* call has returned what it returns when run alone.
ConcurrentCallsIndependent ==
  /\ SubSeq(heap, 1, Len(StaticHeap)) = StaticHeap
  /\ \A i \in CallIDs :
       /\ Cardinality(Held(i)) = Allocated(i)
       /\ Held(i) \cap StaticAddrs = {}
       /\ \A j \in CallIDs \ {i} : Held(i) \cap Held(j) = {}
  /\ \A i \in CallIDs :
       calls[i].pc = "done" =>
         /\ calls[i].result = Alone(i).result
         /\ calls[i].err = Alone(i).err

\* two calls overlap: call 1 has returned a result with penalties applied
\* although call 2, which allocated its adjusted scores first, is still in
\* its penalty loop and has written a penalty of its own
ConcurrentCallsIndependentWitness ==
  /\ pc = "concurrent"
  /\ calls[1].pc = "done"
  /\ calls[1].err = ""
  /\ heap[calls[1].applied] # <<>>
  /\ calls[2].pc = "rules"
  /\ calls[2].k <= Len(riskPenaltyRules)
  /\ heap[calls[2].applied] # <<>>
  /\ calls[2].adjusted < calls[1].adjusted
  /\ calls[1].answers # calls[2].answers

\* the sum over the 9 features of p[i] * weights[c][i], in 1/(FScale*100)
WeightedSum(p, c) ==
    p[0] * CareerWeightMatrix[c][0] + p[1] * CareerWeightMatrix[c][1]
  + p[2] * CareerWeightMatrix[c][2] + p[3] * CareerWeightMatrix[c][3]
  + p[4] * CareerWeightMatrix[c][4] + p[5] * CareerWeightMatrix[c][5]
  + p[6] * CareerWeightMatrix[c][6] + p[7] * CareerWeightMatrix[c][7]
  + p[8] * CareerWeightMatrix[c][8]

\* C21: ComputeRawScores returns exactly one entry per career, stored at the
\* index equal to the career's enum value and labelled with that career, whose
\* Score is the dot product over the 9 features of profile[i] * weights[career][i];
\* the step that computes the scores leaves the profile as it was given.
ScoresAreDotProducts ==
  [][pc' = "done" =>
       /\ profile' = profile
       /\ DOMAIN rawScores' = 0 .. (NumCareers - 1)
       /\ \A c \in 0 .. (NumCareers - 1) :
            /\ rawScores'[c].Career = c
            /\ rawScores'[c].Score = WeightedSum(profile, c) * PenaltyScale]_vars

\* the scenario profile scored: IT gets 0.9*0.40 + 0.95*0.85 + 0.1*(the other
\* seven weights, three of them negative) = 1.1705
ScoresAreDotProductsWitness ==
  /\ pc = "done"
  /\ profile = ScenarioProfile
  /\ rawScores[CareerIT].Score = 11705 * (ScoreScale \div 10000)
  /\ \E c \in DOMAIN rawScores : rawScores[c].Score < 0

\* C22: no step of the pipeline divides by zero for any input reachable from
\* answers: the per-feature mean, the min-max range, the confidence ratio and
\* the share and drag computation of the explanations are guarded, so no
\* infinite or undefined value appears in the result or in the summary text.
NoDivisionByZero ==
  (pc = "done" /\ err = "") =>
    \A i \in DOMAIN result.Explanations :
      \A k \in 1 .. Len(result.Explanations[i].Summary) :
        ~result.Explanations[i].Summary[k].Inf

\* the contributions to feature f: <<k, j>> is mapping j of the processed answer k
ContributionsTo(f) ==
  { kj \in (1 .. Len(answers)) \X (1 .. NumFeatures) :
      /\ kj[2] <= Len(AnswerMappings(answers[kj[1]], questions))
      /\ AnswerMappings(answers[kj[1]], questions)[kj[2]].FeatureIndex = f }

RECURSIVE WeightSum(_)
WeightSum(S) ==
  IF S = {} THEN 0
  ELSE LET kj == CHOOSE x \in S : TRUE
       IN AnswerMappings(answers[kj[1]], questions)[kj[2]].Weight + WeightSum(S \ {kj})

\* C23: AggregateProfile uses mean aggregation: every feature touched by at
\* least one processed answer equals the sum of the weights contributed to it
\* divided by the number of contributions to that feature, and every feature
\* touched by no processed answer is exactly 0.
MeanAggregation ==
  pc = "done" =>
    \A f \in Features :
      LET n == Cardinality(ContributionsTo(f)) IN
      IF n = 0 THEN profile[f] = 0
      ELSE profile[f] * n = WeightSum(ContributionsTo(f)) * CountLcm

\* two processed answers: one feature with two contributions whose mean is
\* not their sum, another with a single contribution, which is its own mean
\* and not half of it, and a feature no answer touched
MeanAggregationWitness ==
  /\ pc = "done"
  /\ Len(answers) = 2
  /\ \E f \in Features :
       /\ Cardinality(ContributionsTo(f)) = 2
       /\ profile[f] > 0
       /\ profile[f] < FScale
  /\ \E f \in Features :
       /\ Cardinality(ContributionsTo(f)) = 1
       /\ profile[f] = WeightSum(ContributionsTo(f)) * CountLcm
       /\ profile[f] > 0
  /\ \E f \in Features : ContributionsTo(f) = {} /\ profile[f] = 0

\* the (penalty, reason) pairs of the rules on career c whose predicate holds
\* for profile p, in rule-list order
FiredFor(c, p) ==
  LET fired == SelectSeq(riskPenaltyRules,
                         LAMBDA r : r.Career = c /\ p[r.Feature] * 100 > r.Threshold * FScale)
  IN [k \in 1 .. Len(fired) |-> [Penalty |-> fired[k].Penalty, Reason |-> fired[k].Reason]]

\* score * (1 - p1) * (1 - p2) ... for the pairs from position k on
RECURSIVE Penalised(_, _, _)
Penalised(score, pairs, k) ==
  IF k > Len(pairs) THEN score
  ELSE Penalised(MulHundredths(score, 100 - pairs[k].Penalty), pairs, k + 1)

\* C24: ApplyRiskPenalties changes nothing but what fired rules dictate: the
\* penalty map holds, for each career, exactly the (penalty, reason) pairs of
\* the rules whose predicate held for it, in rule-list order; a career for
\* which no rule fired has no map entry and keeps its raw score; and the score
\* list passed by the caller is left unmodified, during the loop and after it.
PenaltiesFrame ==
  \A i \in CallIDs :
    calls[i].pc \in {"rules", "done"} =>
      LET p   == heap[calls[i].profile]
          raw == heap[calls[i].rawScores]
          adj == heap[calls[i].adjusted]
          app == heap[calls[i].applied]
      IN /\ raw = ComputeRawScores(p)
         /\ calls[i].k > Len(riskPenaltyRules) =>
              /\ DOMAIN adj = DOMAIN raw
              /\ DOMAIN app \subseteq DOMAIN raw
              /\ \A c \in DOMAIN raw :
                   /\ adj[c].Career = raw[c].Career
                   /\ adj[c].Score = Penalised(raw[c].Score, FiredFor(c, p), 1)
                   /\ IF FiredFor(c, p) = <<>>
                        THEN c \notin DOMAIN app /\ adj[c] = raw[c]
                        ELSE c \in DOMAIN app /\ app[c] = FiredFor(c, p)

\* a call whose loop has ended with two penalties on Startup, one on Higher
\* Studies and none on IT, its raw scores still those it was given
PenaltiesFrameWitness ==
  \E i \in CallIDs :
    /\ calls[i].pc \in {"rules", "done"}
    /\ calls[i].k > Len(riskPenaltyRules)
    /\ {CareerStartup, CareerHigherStudies} \subseteq DOMAIN heap[calls[i].applied]
    /\ Len(heap[calls[i].applied][CareerStartup]) = 2
    /\ Len(heap[calls[i].applied][CareerHigherStudies]) = 1
    /\ CareerIT \notin DOMAIN heap[calls[i].applied]
    /\ heap[calls[i].adjusted][CareerStartup].Score # heap[calls[i].rawScores][CareerStartup].Score
    /\ heap[calls[i].adjusted][CareerIT] = heap[calls[i].rawScores][CareerIT]

\* C25: GenerateTop3Explanations returns min(3, number of ranked careers)
\* explanations; the i-th explanation is for the i-th ranked career, and its
\* penalty list is exactly the list of penalties that ApplyRiskPenalties
\* recorded for that career, empty when none was applied.
TopThreeExplained ==
  pc = "done" =>
    LET n == Cardinality(DOMAIN ranked.Rankings) IN
    /\ DOMAIN result = 0 .. ((IF n < 3 THEN n ELSE 3) - 1)
    /\ \A i \in DOMAIN result :
         /\ result[i].Career = ranked.Rankings[i].Career
         /\ result[i].RiskPenalties = FiredFor(result[i].Career, profile)
         /\ IF result[i].Career \in DOMAIN applied
              THEN result[i].RiskPenalties = applied[result[i].Career]
              ELSE result[i].RiskPenalties = <<>>

\* two careers ranked, two explanations, the second-ranked career with its
\* recorded penalty and the first with none
TopThreeExplainedWitness ==
  /\ pc = "done"
  /\ Cardinality(DOMAIN ranked.Rankings) = 2
  /\ Cardinality(DOMAIN result) = 2
  /\ result[0].RiskPenalties = <<>>
  /\ Len(result[1].RiskPenalties) = 1
  /\ result[1].Career = CareerMBA

\* the sum of the positive Contribution fields of a factor list, in thousandths
RECURSIVE PositiveSum(_, _)
PositiveSum(factors, i) ==
  IF i >= NumFeatures THEN 0
  ELSE (IF factors[i].Contribution > 0 THEN factors[i].Contribution ELSE 0)
         + PositiveSum(factors, i + 1)

\* C26: in every explanation, each factor with a positive contribution has
\* Percentage = Contribution / (sum of the career's positive contributions)
\* * 100, rounded to two decimals; every factor with a zero or negative
\* contribution has Percentage 0; and the 9 factors are listed in order of
\* non-increasing |Contribution|.
ContributionShares ==
  (pc = "done" /\ err = "") =>
    \A e \in DOMAIN result.Explanations :
      LET factors == result.Explanations[e].TopFactors IN
      /\ DOMAIN factors = Features
      /\ \A i \in Features :
           IF factors[i].Contribution > 0
             THEN factors[i].Percentage =
                    RoundScaled(factors[i].Contribution, PositiveSum(factors, 0), 4)
             ELSE factors[i].Percentage = 0
      /\ \A i \in 0 .. (NumFeatures - 2) :
           Abs(factors[i].Contribution) >= Abs(factors[i + 1].Contribution)

\* the result ComputeResult returns for the request in flight
EngineResult ==
  BuildResult(ScoreProfile(AggregateProfile(answers, QuestionDataOf(questions))))

\* C27: in SubmitAssessment the steps occur in a fixed order. A row is added
\* to the assessment table only by a submission whose questions were loaded,
\* whose ComputeResult has returned its result without error and whose LLM
\* step has finished; a submission that fails at loading the questions or in
\* ComputeResult stores nothing; and a submission that succeeds adds exactly
\* one row, owned by the submitting user.
SubmissionOrder ==
  [][/\ assessments' # assessments =>
          /\ call.Op = "SubmitAssessment"
          /\ call.Fetch = "ok"
          /\ err = ""
          /\ MarshalResult(AssessmentResult(EngineResult, NoText)) =
               MarshalResult(AssessmentResult(result, NoText))
          /\ call.LLM \in (IF CallsProvider(cfg) THEN CallOutcomes ELSE {"skipped"})
          /\ call.Store = "none"
          /\ call'.Store # "none"
     /\ (call'.Op = "SubmitAssessment" /\ pc' = "done" /\ pc # "done") =>
          /\ response'.Err = "" =>
               /\ Len(assessments') = Len(assessments) + 1
               /\ SubSeq(assessments', 1, Len(assessments)) = assessments
               /\ assessments'[Len(assessments')].UserID = call.UserID
               /\ assessments'[Len(assessments')].ID = response'.Body.ID
          /\ response'.Err \in {"failed to fetch questions", "scoring engine error"} =>
               assessments' = assessments]_vars

\* the second submission, by the other user, stored after the provider
\* returned a text: the row holds the generated explanation
SubmissionOrderWitness ==
  /\ pc = "done"
  /\ call.Op = "SubmitAssessment"
  /\ call.Fetch = "ok"
  /\ call.LLM = "text"
  /\ call.Store = "ok"
  /\ response.Err = ""
  /\ Len(assessments) = 2
  /\ assessments[1].UserID # assessments[2].UserID
  /\ assessments[2].UserID = call.UserID
  /\ assessments[2].Result.AIExplanation = GeneratedText

\* C28: the career reported as bestCareerPath (rank 1 of the ranking) always
\* has the maximum penalty-adjusted score, and the ranking never places a
\* career above one with a strictly greater adjusted score.
BestHasMaxScore ==
  (pc = "done" /\ err = "") =>
    /\ result.BestCareerPath = CareerString(ranked.Rankings[0].Career)
    /\ \A c \in DOMAIN adjusted :
         adjusted[c].Score <= adjusted[ranked.Rankings[0].Career].Score
    /\ \A i, j \in DOMAIN ranked.Rankings :
         i < j => adjusted[ranked.Rankings[i].Career].Score
                    >= adjusted[ranked.Rankings[j].Career].Score

\* the answers list rearranged by the permutation p of its indices
Permuted(list, p) == [i \in 1 .. Len(list) |-> list[p[i]]]

\* C29: AggregateProfile does not depend on the order of the answers: every
\* permutation of the same answers list, against the same catalog, yields the
\* same profile in all 9 features.
OrderIndependent ==
  pc = "done" =>
    \A p \in Permutations(1 .. Len(answers)) :
      AggregateProfile64(Permuted(answers, p), questions) = profile

\* the row a read names is one its caller stored
OwnRow(id, userID) == FindByID(id) # <<>> /\ FindByID(id).UserID = userID

\* C30: after any sequence of submissions by several users, GetAssessment(id, u)
\* and Chat(u, id) return content only when the assessment with that id was
\* stored by user u; for any other user, or for an id that does not exist, they
\* return an error, disclose nothing of the stored result and hand nothing to
\* the LLM provider.
OwnerOnlyAccess ==
  pc = "served" =>
    /\ response.Err = "" => OwnRow(call.AssessmentID, call.UserID)
    /\ ~OwnRow(call.AssessmentID, call.UserID) =>
         /\ response.Err # ""
         /\ response.Body = <<>>
         /\ call.LLM = "none"
    /\ (call.Op = "GetAssessment" /\ response.Err = "") =>
         /\ response.Body.ID = call.AssessmentID
         /\ response.Body.UserID = call.UserID

\* two rows stored by two users, and a read of one of them by the other user
OwnerOnlyAccessWitness ==
  /\ pc = "served"
  /\ Len(assessments) = 2
  /\ assessments[1].UserID # assessments[2].UserID
  /\ call.AssessmentID \in 1 .. 2
  /\ ~OwnRow(call.AssessmentID, call.UserID)
  /\ call.Store = "ok"
  /\ response.Err \in {"unauthorized access to assessment", "unauthorized"}
====
